---- MODULE Spec2Model ----
(***************************************************************************)
(* A model of the Win32 back end of the portable runtime: process mutexes  *)
(* (locks/win32/proc_mutex.c), the directory iterator and recursive mkdir  *)
(* (file_io/win32/dir.c), the metadata resolver                            *)
(* (file_io/win32/filestat.c) and the socket transfer calls                *)
(* (network_io/win32/sendrecv.c).  The native kernel objects the code      *)
(* drives (mutex objects and handle tables, search contexts, the directory *)
(* tree, the socket's queues and its overlapped transfer) are modelled     *)
(* beside it, so that what the code returns can be compared with what the  *)
(* platform did.                                                           *)
(***************************************************************************)
EXTENDS Integers, Sequences, FiniteSets, TLC

VARIABLES
    kobj,      \* kernel mutex objects: ObjIds -> [key, owner, cnt, abandoned, refs]
    htab,      \* per-process handle table: Procs -> [Handles -> ObjIds \cup {0}]
    pm,        \* the apr_proc_mutex_t instances: [alloc, handle, fname, cleanup, ..],
               \* and (history) via: the call that made it, closed: destroy has
               \* issued a native close on its handle
    torn,      \* instance -> its pool has been destroyed
    alive,     \* process -> still running
    holds,     \* history: process -> object -> acquisitions reported Success, not yet released
    mlast      \* history: the last call, its status and what it saw

mutexVars == <<kobj, htab, pm, torn, alive, holds, mlast>>

VARIABLES
    fs,        \* the directories that exist, each a sequence of path components
    mk,        \* per caller: the apr_dir_make_recursive call it is running
    made       \* history: the paths some make_recursive call has answered Success for

mkdirVars == <<fs, mk, made>>

VARIABLES
    dcont,     \* the entries of the directory, in native enumeration order
    dctx,      \* native search contexts: CtxIds -> cursor position, 0 when not open
    dir,       \* the apr_dir_t: [alloc, dirhand, bof, rootlen, dirname, cleanup, torn]
    dstream,   \* history of the current pass over the directory
    dlast      \* history: the last directory call and what it did

dirVars == <<dcont, dctx, dir, dstream, dlast>>

VARIABLES
    worldid,   \* filestat.c's static worldid: TRUE once the world SID is allocated
    slast      \* the metadata query in hand, with its result; op "none" between queries

statVars == <<worldid, slast>>

VARIABLES
    sock,      \* the sending side of the apr_socket_t: [timeout, overlapped, events,
               \* inflight]; inflight is the raw size of a transfer still pending
               \* in the kernel after its wait was given up, 0 when there is none
    nlast      \* the send call in hand, with its result; op "none" between calls

sendVars == <<sock, nlast>>

VARIABLES
    rsock,     \* the receiving side of the socket: [type, rbuf, peer]
    rlast      \* the receive call in hand, with its result; op "none" between calls

recvVars == <<rsock, rlast>>

vars == <<mutexVars, mkdirVars, dirVars, statVars, sendVars, recvVars>>

\* what the actions of one component leave alone
MutexRest == <<mkdirVars, dirVars, statVars, sendVars, recvVars>>
MkdirRest == <<mutexVars, dirVars, statVars, sendVars, recvVars>>
DirRest == <<mutexVars, mkdirVars, statVars, sendVars, recvVars>>
StatRest == <<mutexVars, mkdirVars, dirVars, sendVars, recvVars>>
SendRest == <<mutexVars, mkdirVars, dirVars, statVars, recvVars>>
RecvRest == <<mutexVars, mkdirVars, dirVars, statVars, sendVars>>

----------------------------------------------------------------------------
(* Bounds of the mutex model *)

MaxObj == 2         \* kernel mutex objects that can exist at once
MaxHandle == 2      \* handle values per process
MaxRec == 2         \* recursive acquisitions by the owning thread
MaxPut == 1         \* handles put into one instance by put_ex and put

Procs == {1, 2}
\* the apr_proc_mutex_t instances: 1 and 3 live in process 1, 2 in process 2
Inst == {1, 2, 3}
ObjIds == 1..MaxObj
Handles == 1..MaxHandle

\* the instance that also wraps handles passed to put_ex and put: the second
\* one of process 1, where instance 1 has handles to pass
PutInst == {3}
PutProc == {1, 3}

\* the mechanism, register_cleanup flag and pool (FALSE for NULL) that put_ex
\* is called with: each supported mechanism, with and without cleanup, an
\* unsupported mechanism with and without a pool, and no pool
PutArgs ==
    { [mech |-> "DEFAULT", reg |-> TRUE, pool |-> TRUE],
      [mech |-> "DEFAULT", reg |-> FALSE, pool |-> TRUE],
      [mech |-> "DEFAULT_TIMED", reg |-> TRUE, pool |-> TRUE],
      [mech |-> "FCNTL", reg |-> TRUE, pool |-> TRUE],
      [mech |-> "FCNTL", reg |-> TRUE, pool |-> FALSE],
      [mech |-> "DEFAULT", reg |-> TRUE, pool |-> FALSE] }

\* the process an instance lives in (each process runs one thread)
ProcOf(i) == IF i % 2 = 1 THEN 1 ELSE 2

\* file names handed to create / child_init; <<>> stands for NULL
FNames == { <<"a">>, <<"/", "a">> }
NullName == <<>>

Mechs == {"DEFAULT", "DEFAULT_TIMED", "FCNTL"}

----------------------------------------------------------------------------
(* The native mutex API *)

NoObj == [key |-> <<>>, owner |-> 0, cnt |-> 0, abandoned |-> FALSE, refs |-> 0]

\* res_name_from_filename(fname, 1, pool): a pseudo-name without slashes or
\* backslashes, with the global-namespace prefix
res_name_from_filename(f) ==
    <<"Global">> \o SelectSeq(f, LAMBDA c : c \notin {"/", "\\"})

Min(S) == CHOOSE x \in S : \A y \in S : x <= y

FreeHandles(p) == {h \in Handles : htab[p][h] = 0}
FreeObjs == {o \in ObjIds : kobj[o].refs = 0}
NamedObjs(key) == {o \in ObjIds : kobj[o].refs > 0 /\ kobj[o].key = key}

\* the object a handle value of process p refers to, 0 when it refers to none
ObjOf(p, h) == IF h = 0 THEN 0 ELSE htab[p][h]

\* CreateMutexW(NULL, FALSE, key): the object id the new handle refers to,
\* 0 when the call fails.  A key that names an existing object opens it.
CreateMutexW(p, key) ==
    IF FreeHandles(p) = {} THEN 0
    ELSE IF key # NullName /\ NamedObjs(key) # {} THEN Min(NamedObjs(key))
    ELSE IF FreeObjs = {} THEN 0
    ELSE Min(FreeObjs)

\* OpenMutexW(MUTEX_ALL_ACCESS, FALSE, key): 0 when no object has that name
OpenMutexW(p, key) ==
    IF FreeHandles(p) = {} \/ NamedObjs(key) = {} THEN 0
    ELSE Min(NamedObjs(key))

\* the kernel after process p received a new handle h to object o under key
KAddRef(o, key) ==
    [kobj EXCEPT ![o] = IF @.refs = 0
                        THEN [NoObj EXCEPT !.key = key, !.refs = 1]
                        ELSE [@ EXCEPT !.refs = @ + 1]]

\* WaitForSingleObject(h, timeout) at the moment the wait ends
WaitForSingleObject(p, h) ==
    IF ObjOf(p, h) = 0 THEN "WAIT_FAILED"
    ELSE LET o == kobj[ObjOf(p, h)] IN
         IF o.owner = 0
         THEN (IF o.abandoned THEN "WAIT_ABANDONED" ELSE "WAIT_OBJECT_0")
         ELSE IF o.owner = p THEN "WAIT_OBJECT_0"
         ELSE "WAIT_TIMEOUT"

Acquired(rv) == rv \in {"WAIT_OBJECT_0", "WAIT_ABANDONED"}

\* the kernel after the wait: ownership is granted on the two acquiring results
KAfterWait(p, h, rv) ==
    IF Acquired(rv)
    THEN [kobj EXCEPT ![ObjOf(p, h)] =
              [@ EXCEPT !.owner = p, !.cnt = @ + 1, !.abandoned = FALSE]]
    ELSE kobj

\* ReleaseMutex(h): succeeds only for the owning thread
ReleaseOK(p, h) == ObjOf(p, h) # 0 /\ kobj[ObjOf(p, h)].owner = p

KAfterRelease(p, h) ==
    LET o == kobj[ObjOf(p, h)] IN
    [kobj EXCEPT ![ObjOf(p, h)] =
         [o EXCEPT !.cnt = o.cnt - 1, !.owner = IF o.cnt = 1 THEN 0 ELSE p]]

\* CloseHandle(h): fails on a value that is no open handle of the process
CloseOK(p, h) == ObjOf(p, h) # 0

KAfterClose(p, h) ==
    [kobj EXCEPT ![ObjOf(p, h)] =
         IF @.refs = 1 THEN NoObj ELSE [@ EXCEPT !.refs = @ - 1]]

\* what the pre-state of an acquisition looked like to process p
HolderClass(p, h) ==
    IF ObjOf(p, h) = 0 THEN "invalid"
    ELSE LET o == kobj[ObjOf(p, h)] IN
         IF o.owner = 0 THEN "free"
         ELSE IF o.owner = p THEN "self" ELSE "other"

----------------------------------------------------------------------------
(* proc_mutex.c *)

\* cleanup: how many times proc_mutex_cleanup is registered for the instance;
\* injected: whether the handle was put in ("reg": with register_cleanup,
\* "noreg": without) or made by the instance's own call ("no")
NoMutex == [alloc |-> FALSE, handle |-> 0, fname |-> NullName, cleanup |-> 0,
            via |-> "none", closed |-> FALSE, puts |-> 0, injected |-> "no"]

\* pre: who owned the mutex when the call began; closes: the call issued a native
\* close; second: an earlier destroy had already closed the instance's handle;
\* wait: what the native wait of an acquiring call returned; mech, pool, reg:
\* the mechanism, the pool (FALSE for NULL) and the register_cleanup flag passed
NoCall == [op |-> "none", i |-> 0, rv |-> "SUCCESS", pre |-> "none",
           closes |-> FALSE, second |-> FALSE, wait |-> "", mech |-> "",
           pool |-> TRUE, reg |-> FALSE, fname |-> <<>>, opens |-> FALSE]

Call(op, i, rv) == [NoCall EXCEPT !.op = op, !.i = i, !.rv = rv]

SupportedMechAny(mech) == TRUE

SupportedMech(mech) == mech \in {"DEFAULT", "DEFAULT_TIMED"}

LockStatusAbandonedFails(rv) == IF rv = "WAIT_OBJECT_0" THEN "SUCCESS" ELSE "OSERR"

\* the status apr_proc_mutex_lock makes of the wait's result
LockStatus(rv) ==
    IF rv = "WAIT_OBJECT_0" \/ rv = "WAIT_ABANDONED" THEN "SUCCESS" ELSE "OSERR"

TrylockStatusBusyAsSuccess(rv) ==
    IF rv = "WAIT_OBJECT_0" \/ rv = "WAIT_ABANDONED" \/ rv = "WAIT_TIMEOUT"
    THEN "SUCCESS" ELSE "OSERR"

\* the status apr_proc_mutex_trylock makes of the wait's result
TrylockStatus(rv) ==
    IF rv = "WAIT_OBJECT_0" \/ rv = "WAIT_ABANDONED" THEN "SUCCESS"
    ELSE IF rv = "WAIT_TIMEOUT" THEN "EBUSY"
    ELSE "OSERR"

TimedlockStatusBusy(rv) ==
    IF rv = "WAIT_TIMEOUT" THEN "EBUSY"
    ELSE IF rv = "WAIT_OBJECT_0" \/ rv = "WAIT_ABANDONED" THEN "SUCCESS"
    ELSE "OSERR"

\* the status apr_proc_mutex_timedlock makes of the wait's result
TimedlockStatus(rv) ==
    IF rv = "WAIT_TIMEOUT" THEN "TIMEUP"
    ELSE IF rv = "WAIT_OBJECT_0" \/ rv = "WAIT_ABANDONED" THEN "SUCCESS"
    ELSE "OSERR"

CreateKeyAlwaysNull(fname) == NullName

\* the key apr_proc_mutex_create hands to CreateMutexW
CreateKey(fname) ==
    IF fname # NullName THEN res_name_from_filename(fname) ELSE NullName

\* an instance the caller may still use
Usable(i) == pm[i].alloc /\ ~torn[i] /\ alive[ProcOf(i)]

\* an instance not yet made (a process makes its instances in order)
Fresh(i) ==
    /\ ~pm[i].alloc /\ ~torn[i] /\ alive[ProcOf(i)]
    /\ i > 2 => pm[i - 2].alloc \/ torn[i - 2]

Holding(p, o) == [holds EXCEPT ![p][o] = @ + 1]
Releasing(p, o) == [holds EXCEPT ![p][o] = IF @ > 0 THEN @ - 1 ELSE 0]
\* an object that went away is no exclusion domain any more
Forget(hs, k) == [p \in Procs |-> [o \in ObjIds |->
                     IF k[o].refs = 0 THEN 0 ELSE hs[p][o]]]

\* apr_proc_mutex_create(&mutex, fname, mech, pool)
MCreate(i, fname, mech, native) ==
    LET p == ProcOf(i)
        key == CreateKey(fname)
        o == IF native THEN CreateMutexW(p, key) ELSE 0
        h == Min(FreeHandles(p))
    IN
    /\ Fresh(i)
    /\ IF ~SupportedMech(mech)
       THEN /\ mlast' = [Call("create", i, "ENOTIMPL") EXCEPT !.mech = mech]
            /\ UNCHANGED <<kobj, htab, pm>>
       ELSE IF o = 0
       THEN /\ mlast' = [Call("create", i, "OSERR") EXCEPT !.mech = mech]
            /\ UNCHANGED <<kobj, htab, pm>>
       ELSE /\ kobj' = KAddRef(o, key)
            /\ htab' = [htab EXCEPT ![p][h] = o]
            /\ pm' = [pm EXCEPT ![i] = [alloc |-> TRUE, handle |-> h, fname |-> fname,
                                        cleanup |-> 1, via |-> "create",
                                        closed |-> FALSE, puts |-> 0,
                                        injected |-> "no"]]
            /\ mlast' = [Call("create", i, "SUCCESS") EXCEPT !.mech = mech]
    /\ UNCHANGED <<torn, alive, holds>>
    /\ UNCHANGED MutexRest

UnnamedNever(fname) == FALSE

\* if (!fname) of apr_proc_mutex_child_init
Unnamed(fname) == fname = NullName

\* the record of a child_init call: the name passed, and whether OpenMutexW
\* was called
ChildInitCall(i, fname, rv) ==
    [Call("child_init", i, rv) EXCEPT !.fname = fname, !.opens = ~Unnamed(fname)]

\* the body of apr_proc_mutex_child_init(&mutex, fname, pool) on instance i
ChildInit(i, fname, native) ==
    LET p == ProcOf(i)
        key == res_name_from_filename(fname)
        o == IF native THEN OpenMutexW(p, key) ELSE 0
        h == Min(FreeHandles(p))
    IN
    /\ IF Unnamed(fname)
       THEN /\ mlast' = ChildInitCall(i, fname, "SUCCESS")
            /\ UNCHANGED <<kobj, htab, pm>>
       ELSE IF o = 0
       THEN /\ mlast' = ChildInitCall(i, fname, "OSERR")
            /\ UNCHANGED <<kobj, htab, pm>>
       ELSE /\ kobj' = KAddRef(o, key)
            /\ htab' = [htab EXCEPT ![p][h] = o]
            /\ pm' = [pm EXCEPT ![i] = [alloc |-> TRUE, handle |-> h, fname |-> fname,
                                        cleanup |-> 1, via |-> "child_init",
                                        closed |-> FALSE, puts |-> 0,
                                        injected |-> "no"]]
            /\ mlast' = ChildInitCall(i, fname, "SUCCESS")
    /\ UNCHANGED <<torn, alive, holds>>
    /\ UNCHANGED MutexRest

\* apr_proc_mutex_child_init(&mutex, fname, pool) where *mutex is a new instance
MChildInit(i, fname, native) == Fresh(i) /\ ChildInit(i, fname, native)

\* apr_proc_mutex_child_init(&mutex, fname, pool) where *mutex is an instance the
\* process has already (an inherited one), in the two cases in which the code
\* does not write *mutex: no name, and a name that OpenMutexW does not open
MChildReinit(i, fname, native) ==
    /\ Usable(i)
    /\ \/ fname = NullName
       \/ ~native
       \/ OpenMutexW(ProcOf(i), res_name_from_filename(fname)) = 0
    /\ ChildInit(i, fname, native)

\* the part the three acquiring calls share: one native wait, then the status
MWait(op, i, status) ==
    LET p == ProcOf(i)
        h == pm[i].handle
        o == ObjOf(p, h)
        rv == WaitForSingleObject(p, h)
    IN
    /\ Usable(i)
    /\ Acquired(rv) => kobj[o].cnt < MaxRec
    /\ kobj' = KAfterWait(p, h, rv)
    /\ holds' = IF status = "SUCCESS" /\ o # 0 THEN Holding(p, o) ELSE holds
    /\ mlast' = [Call(op, i, status) EXCEPT !.pre = HolderClass(p, h), !.wait = rv]
    /\ UNCHANGED <<htab, pm, torn, alive>>
    /\ UNCHANGED MutexRest

\* apr_proc_mutex_lock(mutex): returns when the infinite wait ends
MLock(i) ==
    /\ WaitForSingleObject(ProcOf(i), pm[i].handle) # "WAIT_TIMEOUT"
    /\ MWait("lock", i,
             LockStatus(WaitForSingleObject(ProcOf(i), pm[i].handle)))

\* apr_proc_mutex_trylock(mutex)
MTryLock(i) ==
    MWait("trylock", i,
          TrylockStatus(WaitForSingleObject(ProcOf(i), pm[i].handle)))

\* apr_proc_mutex_timedlock(mutex, timeout): the wait ends by acquisition, by
\* failure, or by the timeout expiring while another thread owns the object
MTimedLock(i) ==
    MWait("timedlock", i,
          TimedlockStatus(WaitForSingleObject(ProcOf(i), pm[i].handle)))

\* apr_proc_mutex_unlock(mutex)
MUnlock(i) ==
    LET p == ProcOf(i)
        h == pm[i].handle
        o == ObjOf(p, h)
    IN
    /\ Usable(i)
    /\ IF ReleaseOK(p, h)
       THEN /\ kobj' = KAfterRelease(p, h)
            /\ holds' = Releasing(p, o)
            /\ mlast' = Call("unlock", i, "SUCCESS")
       ELSE /\ mlast' = Call("unlock", i, "OSERR")
            /\ UNCHANGED <<kobj, holds>>
    /\ UNCHANGED <<htab, pm, torn, alive>>
    /\ UNCHANGED MutexRest

\* proc_mutex_cleanup(mutex): TRUE when it returns APR_SUCCESS
CleanupOK(i) == pm[i].handle = 0 \/ CloseOK(ProcOf(i), pm[i].handle)
\* ... and whether it issued the native close
CleanupCloses(i) == pm[i].handle # 0

\* the state proc_mutex_cleanup leaves: the handle is closed, the field is kept
CleanupEffect(i) ==
    LET p == ProcOf(i)
        h == pm[i].handle
    IN
    IF CleanupCloses(i) /\ CloseOK(p, h)
    THEN /\ kobj' = KAfterClose(p, h)
         /\ htab' = [htab EXCEPT ![p][h] = 0]
         /\ holds' = Forget(holds, KAfterClose(p, h))
    ELSE UNCHANGED <<kobj, htab, holds>>

\* apr_proc_mutex_destroy(mutex)
MDestroy(i) ==
    /\ Usable(i)
    /\ CleanupEffect(i)
    /\ pm' = [pm EXCEPT ![i].cleanup = IF CleanupOK(i) /\ @ > 0 THEN @ - 1 ELSE @,
                         ![i].closed = @ \/ CleanupCloses(i)]
    /\ mlast' = [Call("destroy", i, IF CleanupOK(i) THEN "SUCCESS" ELSE "OSERR")
                     EXCEPT !.closes = CleanupCloses(i),
                            !.second = pm[i].closed]
    /\ UNCHANGED <<torn, alive>>
    /\ UNCHANGED MutexRest

\* destruction of the pool the instance was allocated from: the registered
\* cleanup runs, the instance is gone
MTeardown(i) ==
    /\ Usable(i)
    /\ IF pm[i].cleanup > 0
       THEN CleanupEffect(i)
       ELSE UNCHANGED <<kobj, htab, holds>>
    /\ torn' = [torn EXCEPT ![i] = TRUE]
    /\ pm' = [pm EXCEPT ![i] = [NoMutex EXCEPT !.closed = pm[i].closed]]
    /\ mlast' = [Call("teardown", i, "SUCCESS") EXCEPT
                     !.closes = pm[i].cleanup > 0 /\ CleanupCloses(i),
                     !.second = pm[i].closed]
    /\ UNCHANGED <<alive>>
    /\ UNCHANGED MutexRest

\* the status of apr_os_proc_mutex_put_ex(&pmutex, &ospmutex, mech,
\* register_cleanup, pool); pool is FALSE for NULL
PutExStatus(mech, pool) ==
    IF ~pool THEN "ENOPOOL"
    ELSE IF ~SupportedMech(mech) THEN "ENOTIMPL"
    ELSE "SUCCESS"

\* the instance after a successful put_ex of handle value h: allocated when
\* *pmutex was NULL (fname is not set by the code), the handle replaced without
\* being closed, the cleanup registered when asked for
PutExMutex(i, h, reg, op) ==
    [alloc |-> TRUE, handle |-> h, fname |-> pm[i].fname,
     cleanup |-> IF reg THEN pm[i].cleanup + 1 ELSE pm[i].cleanup,
     via |-> IF pm[i].alloc THEN pm[i].via ELSE "put_ex", closed |-> FALSE,
     puts |-> pm[i].puts + 1,
     injected |-> IF reg THEN "reg" ELSE "noreg"]

\* the body of put_ex on instance i, made by the call op
PutEx(op, i, h, mech, reg, pool) ==
    /\ Fresh(i) \/ Usable(i)
    /\ pm[i].puts < MaxPut
    /\ pm' = IF PutExStatus(mech, pool) = "SUCCESS"
             THEN [pm EXCEPT ![i] = PutExMutex(i, h, reg, op)] ELSE pm
    /\ mlast' = [Call(op, i, PutExStatus(mech, pool))
                     EXCEPT !.mech = mech, !.pool = pool, !.reg = reg]
    /\ UNCHANGED <<kobj, htab, torn, alive, holds>>
    /\ UNCHANGED MutexRest

\* apr_os_proc_mutex_put_ex(&pmutex, &ospmutex, mech, register_cleanup, pool):
\* the caller passes any handle value, open in its process or not
MPutEx(i, h, mech, reg, pool) == PutEx("put_ex", i, h, mech, reg, pool)

\* apr_os_proc_mutex_put(&pmutex, &ospmutex, pool)
MPut(i, h, pool) == PutEx("put", i, h, "DEFAULT", FALSE, pool)

\* the process dies: the kernel closes its handles and marks the mutexes its
\* thread owned as abandoned
MExit(p) ==
    LET gone(o) == Cardinality({h \in Handles : htab[p][h] = o})
        k == [o \in ObjIds |->
                 IF kobj[o].refs = 0 \/ kobj[o].refs = gone(o) THEN NoObj
                 ELSE IF kobj[o].owner = p
                 THEN [kobj[o] EXCEPT !.refs = @ - gone(o), !.owner = 0,
                                      !.cnt = 0, !.abandoned = TRUE]
                 ELSE [kobj[o] EXCEPT !.refs = @ - gone(o)]]
    IN
    /\ alive[p]
    /\ \E o \in ObjIds : kobj[o].refs > 0
    /\ alive' = [alive EXCEPT ![p] = FALSE]
    /\ kobj' = k
    /\ htab' = [htab EXCEPT ![p] = [h \in Handles |-> 0]]
    /\ holds' = Forget([holds EXCEPT ![p] = [o \in ObjIds |-> 0]], k)
    /\ pm' = [i \in Inst |-> IF ProcOf(i) = p THEN NoMutex ELSE pm[i]]
    /\ torn' = [i \in Inst |-> ProcOf(i) = p \/ torn[i]]
    /\ mlast' = Call("exit", 0, "SUCCESS")
    /\ UNCHANGED MutexRest

MutexNext ==
    \/ \E i \in Inst, f \in FNames \cup {NullName}, m \in Mechs, native \in BOOLEAN :
           MCreate(i, f, m, native)
    \/ \E i \in Inst, f \in FNames \cup {NullName}, native \in BOOLEAN :
           MChildInit(i, f, native)
    \/ \E i \in Inst : MLock(i)
    \/ \E i \in Inst : MTryLock(i)
    \/ \E i \in Inst : MTimedLock(i)
    \/ \E i \in Inst : MUnlock(i)
    \/ \E i \in Inst : MDestroy(i)
    \/ \E i \in Inst : MTeardown(i)
    \/ \E p \in Procs : MExit(p)

\* the life of the instances of process 1 when handles are also put into one:
\* instance 1 is created, its handle values (or any other) are put into
\* instance 3, and both are locked, unlocked, destroyed and torn down
PutNext ==
    \/ \E i \in PutProc, f \in FNames \cup {NullName}, m \in Mechs, native \in BOOLEAN :
           MCreate(i, f, m, native)
    \/ \E i \in PutInst, h \in Handles \cup {0}, a \in PutArgs :
           MPutEx(i, h, a.mech, a.reg, a.pool)
    \/ \E i \in PutInst, h \in Handles \cup {0}, pool \in BOOLEAN : MPut(i, h, pool)
    \/ \E i \in PutProc, f \in FNames \cup {NullName}, native \in BOOLEAN :
           MChildInit(i, f, native)
    \/ \E i \in PutProc, f \in FNames \cup {NullName}, native \in BOOLEAN :
           MChildReinit(i, f, native)
    \/ \E i \in PutProc : MLock(i)
    \/ \E i \in PutProc : MTryLock(i)
    \/ \E i \in PutProc : MUnlock(i)
    \/ \E i \in PutProc : MDestroy(i)
    \/ \E i \in PutProc : MTeardown(i)

----------------------------------------------------------------------------
(* dir.c: apr_dir_make, dir_make_parent, apr_dir_make_recursive *)

\* the callers that run make_recursive concurrently
MkCallers == {1, 2}

BS == "\\"
FS == "/"

\* the paths the callers ask for, as character sequences
MkPaths == {
    <<"a">>,
    <<"a", BS, "b">>,
    <<"a", BS, "b", BS, "c">>,
    <<"a", FS, "b">>,
    <<"f">>,
    <<"f", BS, "b">>,
    <<"a", BS, "b", BS>>,
    <<>> }

\* a regular file that occupies a name from the start
Files == { <<"f">> }

IsSep(ch) == ch = BS \/ ch = FS

\* the components of a path: the pieces between separators, empty pieces dropped
RECURSIVE Components(_)
Components(path) ==
    IF path = <<>> THEN <<>>
    ELSE LET n == Len(path)
             rest == Components(SubSeq(path, 1, n - 1))
         IN IF IsSep(path[n]) THEN rest
            ELSE IF n > 1 /\ ~IsSep(path[n - 1])
                 THEN [rest EXCEPT ![Len(rest)] = @ \o <<path[n]>>]
                 ELSE Append(rest, <<path[n]>>)

Parent(comps) == SubSeq(comps, 1, Len(comps) - 1)

\* CreateDirectoryW(path) seen through apr_dir_make: the status on the tree dirs
apr_dir_make(dirs, path) ==
    LET comps == Components(path) IN
    IF comps = <<>> THEN "ENOENT"
    ELSE IF Parent(comps) # <<>> /\ Parent(comps) \notin dirs THEN "ENOENT"
    ELSE IF comps \in dirs \/ comps \in Files THEN "EEXIST"
    ELSE "SUCCESS"

\* the tree after the call
DirsAfterMake(dirs, path) ==
    IF apr_dir_make(dirs, path) = "SUCCESS" THEN dirs \cup {Components(path)}
    ELSE dirs

\* a search that takes the end of the string for a backslash
StrRChrAtEnd(path) == Len(path) + 1

\* strrchr(path, '\\'): the index of the last backslash, 0 when there is none
StrRChr(path) ==
    LET at == {k \in 1..Len(path) : path[k] = BS} IN
    IF at = {} THEN 0 ELSE CHOOSE k \in at : \A j \in at : j <= k

\* apr_filepath_merge(&dir, "", path, APR_FILEPATH_NATIVE): the path with the
\* native separator
FilepathMergeNative(path) ==
    [k \in 1..Len(path) |-> IF path[k] = FS THEN BS ELSE path[k]]

AcceptedByCaller(rv) == rv = "SUCCESS" \/ rv = "EEXIST"

TopStatusKeepsExist(rv) == rv

\* apr_dir_make_recursive, when the first apr_dir_make did not report ENOENT
TopStatus(rv) == IF rv = "EEXIST" THEN "SUCCESS" ELSE rv

FinalStatusKeepsExist(rv) == rv

\* apr_dir_make_recursive, the status of the apr_dir_make that completes the path
FinalStatus(rv) == IF rv = "EEXIST" THEN "SUCCESS" ELSE rv

\* pc: idle, parent (in dir_make_parent, going down), back (a dir_make_parent
\* frame returns rv), done.  stack: the truncated paths of the dir_make_parent
\* frames that wait for their recursive call.  again: the call began after a call
\* on the same path had answered Success.  lost: an apr_dir_make of this call met
\* a directory another caller had made meanwhile.
MkIdle == [pc |-> "idle", path |-> <<>>, dir |-> <<>>, cur |-> <<>>, stack |-> <<>>,
           rv |-> "SUCCESS", again |-> FALSE, lost |-> FALSE]

MkDone(c, rv) ==
    [mk EXCEPT ![c] = [MkIdle EXCEPT !.pc = "done", !.path = mk[c].path, !.rv = rv,
                                     !.again = mk[c].again, !.lost = mk[c].lost]]

\* apr_dir_make_recursive(path): the first apr_dir_make and what follows it
\* without another native call
MkStart(c, path) ==
    LET rv == apr_dir_make(fs, path)
        m == [MkIdle EXCEPT !.path = path, !.again = path \in made]
    IN
    /\ mk[c].pc \in {"idle", "done"}
    /\ fs' = DirsAfterMake(fs, path)
    /\ IF rv = "ENOENT"
       THEN /\ mk' = [mk EXCEPT ![c] = [m EXCEPT !.pc = "parent",
                                                 !.dir = FilepathMergeNative(path),
                                                 !.cur = FilepathMergeNative(path)]]
            /\ made' = made
       ELSE /\ mk' = [mk EXCEPT ![c] = [m EXCEPT !.pc = "done", !.rv = TopStatus(rv)]]
            /\ made' = IF TopStatus(rv) = "SUCCESS" THEN made \cup {path} ELSE made
    /\ UNCHANGED MkdirRest

\* dir_make_parent(cur) up to its recursive call or its return
MkParent(c) ==
    LET cur == mk[c].cur
        ch == StrRChr(cur)
        cut == SubSeq(cur, 1, ch - 1)
        rv == apr_dir_make(fs, cut)
    IN
    /\ mk[c].pc = "parent"
    /\ IF ch = 0
       THEN /\ mk' = [mk EXCEPT ![c].pc = "back", ![c].rv = "ENOENT"]
            /\ fs' = fs
       ELSE /\ fs' = DirsAfterMake(fs, cut)
            /\ IF rv = "ENOENT"
               THEN mk' = [mk EXCEPT ![c].cur = cut, ![c].stack = <<cut>> \o @]
               ELSE mk' = [mk EXCEPT ![c].pc = "back", ![c].rv = rv,
                                     ![c].lost = @ \/ rv = "EEXIST"]
    /\ made' = made
    /\ UNCHANGED MkdirRest

\* a dir_make_parent frame gets the status of its recursive call, completes its
\* own path when that status allows it, and returns
MkBack(c) ==
    LET cut == Head(mk[c].stack)
        rv == apr_dir_make(fs, cut)
    IN
    /\ mk[c].pc = "back" /\ mk[c].stack # <<>>
    /\ IF AcceptedByCaller(mk[c].rv)
       THEN /\ fs' = DirsAfterMake(fs, cut)
            /\ mk' = [mk EXCEPT ![c].stack = Tail(@), ![c].rv = rv,
                                 ![c].lost = @ \/ rv = "EEXIST"]
       ELSE /\ fs' = fs
            /\ mk' = [mk EXCEPT ![c].stack = Tail(@)]
    /\ made' = made
    /\ UNCHANGED MkdirRest

\* apr_dir_make_recursive gets the status of dir_make_parent and completes the path
MkFinal(c) ==
    LET rv == apr_dir_make(fs, mk[c].dir)
        st == IF AcceptedByCaller(mk[c].rv) THEN FinalStatus(rv) ELSE mk[c].rv
    IN
    /\ mk[c].pc = "back" /\ mk[c].stack = <<>>
    /\ fs' = IF AcceptedByCaller(mk[c].rv) THEN DirsAfterMake(fs, mk[c].dir) ELSE fs
    /\ mk' = [MkDone(c, st) EXCEPT
                  ![c].lost = @ \/ (AcceptedByCaller(mk[c].rv) /\ rv = "EEXIST")]
    /\ made' = IF st = "SUCCESS" THEN made \cup {mk[c].path} ELSE made
    /\ UNCHANGED MkdirRest

MkdirNext ==
    \/ \E c \in MkCallers, path \in MkPaths : MkStart(c, path)
    \/ \E c \in MkCallers : MkParent(c)
    \/ \E c \in MkCallers : MkBack(c)
    \/ \E c \in MkCallers : MkFinal(c)

\* the paths of the calls whose termination is checked: the ones that go down
\* the parent chain, one of them through a regular file
MkFairPaths == {
    <<"a", BS, "b", BS, "c">>,
    <<"a", BS, "b", BS>>,
    <<"f", BS, "b">>,
    <<>> }

MkdirFairNext ==
    \/ \E c \in MkCallers, path \in MkFairPaths : MkStart(c, path)
    \/ \E c \in MkCallers : MkParent(c)
    \/ \E c \in MkCallers : MkBack(c)
    \/ \E c \in MkCallers : MkFinal(c)

----------------------------------------------------------------------------
(* filestat.c: apr_stat, apr_file_info_get and what they call *)

APR_PATH_MAX == 5   \* the path limit, scaled down

\* the bits of apr_finfo_t.valid and of a wanted set
FINFO_MIN == {"MTIME", "CTIME", "ATIME", "SIZE", "TYPE"}
FINFO_IDENT == {"DEV", "INODE"}
FINFO_OWNER == {"USER", "GROUP"}
FINFO_PROT == {"UPROT", "GPROT", "WPROT"}
FINFO_ALL == FINFO_MIN \cup FINFO_IDENT \cup FINFO_OWNER \cup FINFO_PROT
                 \cup {"LINK", "CSIZE", "NLINK", "ICASE", "NAME"}

\* the wanted sets tried
WantedSets == {
    {}, FINFO_MIN, {"SIZE"}, {"NAME"}, FINFO_MIN \cup {"NAME"},
    {"LINK"}, FINFO_MIN \cup {"LINK"}, {"LINK", "NAME"}, {"TYPE", "LINK"},
    {"INODE"}, FINFO_IDENT \cup {"NLINK"}, {"LINK", "INODE"},
    {"USER"}, {"GROUP", "LINK"}, {"UPROT"}, {"UPROT", "USER", "LINK"},
    FINFO_PROT, FINFO_PROT \cup {"LINK"}, {"WPROT", "LINK"},
    FINFO_OWNER \cup FINFO_PROT \cup {"LINK"},
    {"CSIZE"}, {"CSIZE", "LINK"}, {"CSIZE", "NAME", "LINK"},
    {"ICASE"}, {"ICASE", "LINK"}, FINFO_ALL }

\* the file names tried, and what each names: a regular file, a read-only
\* regular file, a directory, a symbolic link to the regular file, a junction
\* (a name surrogate) to the directory, a reparse point that is no link, a
\* character device, a pipe; every other name names nothing
StatNames == { <<"f">>, <<"o">>, <<"d">>, <<"l">>, <<"j">>, <<"r">>, <<"n">>,
               <<"p">>, <<"m">>,
               <<"c", ":", "f">>, <<"f", "*">>, <<"f", "|">>,
               <<"d", FS, FS, FS, "f">> }

Kind(fname) ==
    CASE fname = <<"f">> -> "reg"
      [] fname = <<"c", ":", "f">> -> "reg"
      [] fname = <<"o">> -> "ro"
      [] fname = <<"d">> -> "dir"
      [] fname = <<"l">> -> "lnk"
      [] fname = <<"j">> -> "jn"
      [] fname = <<"r">> -> "rp"
      [] fname = <<"n">> -> "dev"
      [] fname = <<"p">> -> "pipe"
      [] OTHER -> "none"

\* the object a handle on fname refers to: a link is followed unless the open
\* asked for the link itself
Opened(fname, openlink) ==
    IF Kind(fname) = "lnk" /\ ~openlink THEN "reg"
    ELSE IF Kind(fname) = "jn" /\ ~openlink THEN "dir"
    ELSE Kind(fname)

\* what the environment does in one query.  nt: apr_os_level >= APR_WIN_NT;
\* acc: the access the caller is granted ("norc": all but READ_CONTROL);
\* native: the query of the attributes succeeds; sec: the security descriptor
\* ("nodacl": there is one, without a DACL); rights: GetEffectiveRightsFromAclW
\* and AllocateAndInitializeSid succeed; csize: the allocation size query
\* succeeds; fullpath: GetFullPathNameW succeeds; find: the FindFirstFileExW by
\* which reparse_point_is_link looks a name up succeeds
AllEnvs == [nt : BOOLEAN, acc : {"full", "norc", "none"}, native : BOOLEAN,
            sec : {"ok", "nodacl", "fail"}, rights : BOOLEAN, csize : BOOLEAN,
            fullpath : BOOLEAN, find : BOOLEAN]

\* the environment in which nothing is refused
BestEnv == [nt |-> TRUE, acc |-> "full", native |-> TRUE, sec |-> "ok",
            rights |-> TRUE, csize |-> TRUE, fullpath |-> TRUE, find |-> TRUE]

MaxDeviations == 2   \* in how many respects one query's environment is adverse

Envs == {env \in AllEnvs :
            Cardinality({f \in DOMAIN env : env[f] # BestEnv[f]}) <= MaxDeviations}

\* what matters of it to a query on an open handle
HandleEnvs == {env \in Envs : env.acc = "full" /\ env.fullpath}

IsAlpha(ch) == ch \in {"c", "d", "f", "j", "l", "m", "n", "o", "p", "r"}

\* IS_FNCHAR(ch): a character a file name may hold
IS_FNCHAR(ch) == ch \notin {"*", "?", ":", "|", BS, FS}

\* test_safe_name(name)
test_safe_name(name) ==
    LET from == IF Len(name) >= 2 /\ IsAlpha(name[1]) /\ name[2] = ":" THEN 3 ELSE 1
        odd == {k \in from..Len(name) : ~IS_FNCHAR(name[k]) /\ ~IsSep(name[k])}
        bad == {k \in odd : name[k] \notin {"?", "*"}}
    IN IF bad # {} THEN "EBADPATH"
       ELSE IF odd # {} THEN "EPATHWILD"
       ELSE "SUCCESS"

\* the attributes the system reports for an object of kind k
Attrs(k, env) ==
    [reparse |-> k \in {"lnk", "jn", "rp"},
     surrogate |-> k \in {"lnk", "jn"},
     directory |-> k \in {"dir", "jn"},
     device |-> k = "dev" /\ ~env.nt,
     zero |-> k \in {"dev", "pipe"},
     readonly |-> k = "ro"]

\* whether the system finds an entry of this name
Found(fname) == Kind(fname) # "none"

\* reparse_point_is_link(wininfo, finddata, fname): the tag is the one of the
\* find data, or the one a lookup of the name gives
reparse_point_is_link(attrs, finddata, fname, env) ==
    IF ~attrs.reparse THEN FALSE
    ELSE IF finddata THEN attrs.surrogate
    ELSE /\ test_safe_name(fname) = "SUCCESS"
         /\ Found(fname) /\ env.find
         /\ Kind(fname) \in {"lnk", "jn"}

\* an apr_finfo_t: the valid bits, the file type, and the fields that hold
\* something other than zero ("*": whatever the record held before the call)
\* The protection word is the set of the bits that are set in it, of 32 bits:
\* bits 0..2 are execute, write and read of the world, the group's are four
\* and the user's eight bits further up.  guessed: whether
\* guess_protection_bits wrote to the record since it was last cleared
FPROT_WEXECUTE == {0}
FPROT_WWRITE == {1}
FPROT_WREAD == {2}
FREADONLY == {28}

prot_scope_world == 0
prot_scope_group == 4
prot_scope_user == 8

\* prot << scope, in the 32 bits of an apr_fileperms_t
ShiftProt(prot, scope) == {b + scope : b \in prot} \cap 0..31

\* the protection word of a record that was cleared, for these attributes
AttrProt(attrs) == IF attrs.readonly THEN FREADONLY ELSE {}

NoFinfo == [valid |-> {}, filetype |-> "NOFILE", filled |-> {},
            protection |-> {}, guessed |-> FALSE]
StaleFinfo == [valid |-> FINFO_ALL, filetype |-> "STALE", filled |-> {"*"},
               protection |-> {1, 9, 28}, guessed |-> FALSE]

\* the file type both fillin_fileinfo and apr_file_info_get conclude from attributes
TypeOf(attrs, finddata, fname, wanted, env) ==
    IF "LINK" \in wanted /\ reparse_point_is_link(attrs, finddata, fname, env)
    THEN "LNK"
    ELSE IF attrs.directory THEN "DIR"
    ELSE IF attrs.device THEN "CHR"
    ELSE "REG"

\* fillin_fileinfo(finfo, wininfo, byhandle, finddata, fname, wanted)
fillin_fileinfo(attrs, byhandle, finddata, fname, wanted, env) ==
    LET t == TypeOf(attrs, finddata, fname, wanted, env) IN
    [finfo |-> [valid |-> FINFO_MIN \cup
                          (IF ~byhandle \/ "LINK" \in wanted THEN {"LINK"} ELSE {}),
                filetype |-> t,
                filled |-> FINFO_MIN,
                protection |-> AttrProt(attrs),
                guessed |-> FALSE],
     warn |-> t = "REG" /\ attrs.zero]

\* the result of a resolver: status, record, the static worldid, native calls
Result(rv, finfo, wid, calls) ==
    [rv |-> rv, finfo |-> finfo, wid |-> wid, calls |-> calls]

\* the calls of a result, after the ones that came before it
After(calls, r) == [r EXCEPT !.calls = calls \o @]

\* bits become valid, their fields set
AddValid(finfo, bits) ==
    [finfo EXCEPT !.valid = @ \cup bits, !.filled = @ \cup bits]

\* the status every resolver ends with
Outcome(finfo, wanted) == IF wanted \ finfo.valid # {} THEN "INCOMPLETE" ELSE "SUCCESS"

Done(finfo, wanted, wid, calls) == Result(Outcome(finfo, wanted), finfo, wid, calls)

GuessWorldWritable(protection) ==
    FPROT_WREAD \cup FPROT_WEXECUTE \cup FPROT_WWRITE

\* guess_protection_bits: what it concludes for the world
GuessWorld(protection) ==
    IF protection \cap FREADONLY # {}
    THEN FPROT_WREAD \cup FPROT_WEXECUTE
    ELSE FPROT_WREAD \cup FPROT_WEXECUTE \cup FPROT_WWRITE

\* guess_protection_bits: the word with its own copies shifted to the group
\* and to the user
SpreadProt(protection) ==
    protection \cup ShiftProt(protection, prot_scope_group)
               \cup ShiftProt(protection, prot_scope_user)

\* guess_protection_bits: the record it leaves
GuessBits(finfo) ==
    [AddValid(finfo, FINFO_PROT) EXCEPT
        !.protection = SpreadProt(@ \cup GuessWorld(@)),
        !.guessed = TRUE]

\* guess_protection_bits(finfo, wanted)
guess_protection_bits(finfo, wanted, wid, calls) ==
    Done(GuessBits(finfo), wanted, wid, calls)

\* the access GetEffectiveRightsFromAclW reports for every trustee of an
\* object: FILE_READ_DATA and FILE_EXECUTE, and FILE_WRITE_DATA unless the
\* object is read-only
Granted(finfo) ==
    IF finfo.protection \cap FREADONLY # {} THEN {"READ", "EXECUTE"}
    ELSE {"READ", "WRITE", "EXECUTE"}

\* convert_prot(acc, scope)
convert_prot(acc, scope) ==
    ShiftProt((IF "EXECUTE" \in acc THEN FPROT_WEXECUTE ELSE {}) \cup
              (IF "WRITE" \in acc THEN FPROT_WWRITE ELSE {}) \cup
              (IF "READ" \in acc THEN FPROT_WREAD ELSE {}), scope)

\* resolve_prot: the shift of a permission scope
ScopeOf(b) ==
    CASE b = "UPROT" -> prot_scope_user
      [] b = "GPROT" -> prot_scope_group
      [] b = "WPROT" -> prot_scope_world

\* resolve_prot: the bits of the scopes it resolved
ProtOf(finfo, bits) ==
    UNION {convert_prot(Granted(finfo), ScopeOf(b)) : b \in bits}

\* resolve_prot: the scopes it resolves
ProtResolved(finfo, wanted, env, wid) ==
    {b \in FINFO_PROT :
        /\ b \in wanted
        /\ env.rights
        /\ b = "UPROT" => "USER" \in finfo.valid
        /\ b = "GPROT" => "GROUP" \in finfo.valid
        /\ b = "WPROT" => wid}

\* resolve_prot(finfo, wanted, dacl), given the world SID after its allocation
resolve_prot(finfo, wanted, env, wid) ==
    [AddValid(finfo, ProtResolved(finfo, wanted, env, wid)) EXCEPT
        !.protection = @ \cup ProtOf(finfo, ProtResolved(finfo, wanted, env, wid))]

\* the static worldid after a resolve_prot
WorldIdAfter(wanted, env, wid) ==
    IF "WPROT" \in wanted /\ ~wid THEN env.rights ELSE wid

\* GetNamedSecurityInfoW / GetSecurityInfo give a descriptor; a handle needs
\* READ_CONTROL for it, a name needs the caller to be granted it
SecurityOK(whatfile, rc, env) ==
    /\ env.sec # "fail"
    /\ whatfile = "HANDLE" => rc
    /\ whatfile = "WFSPEC" => env.acc = "full"

\* more_finfo: the owner and the group a descriptor gives
OwnersGot(wanted, ok) ==
    (IF ok /\ wanted \cap {"USER", "UPROT"} # {} THEN {"USER"} ELSE {}) \cup
    (IF ok /\ wanted \cap {"GROUP", "GPROT"} # {} THEN {"GROUP"} ELSE {})

CsizeAskedAnyType(finfo, wanted) == "CSIZE" \in wanted

\* more_finfo: whether it asks for the compressed size
CsizeAsked(finfo, wanted) == "CSIZE" \in wanted /\ finfo.filetype = "REG"

\* more_finfo: the compressed size, and the status
MoreCsize(finfo, wanted, env, wid, calls) ==
    IF CsizeAsked(finfo, wanted)
    THEN Done(IF env.csize THEN AddValid(finfo, {"CSIZE"}) ELSE finfo,
              wanted, wid, calls \o <<"csize">>)
    ELSE Done(finfo, wanted, wid, calls)

\* more_finfo: the protection bits, from the DACL or guessed
MoreProt(finfo, wanted, dacl, env, wid) ==
    IF dacl
    THEN MoreCsize(resolve_prot(finfo, wanted, env, WorldIdAfter(wanted, env, wid)),
                   wanted, env, WorldIdAfter(wanted, env, wid), <<"security">>)
    ELSE IF wanted \cap FINFO_PROT # {}
    THEN MoreCsize(GuessBits(finfo), wanted, env, wid, <<"security">>)
    ELSE MoreCsize(finfo, wanted, env, wid, <<"security">>)

\* more_finfo: the security descriptor
MoreSecurity(finfo, wanted, ok, env, wid) ==
    MoreProt(AddValid(finfo, OwnersGot(wanted, ok)), wanted,
             ok /\ wanted \cap FINFO_PROT # {} /\ env.sec = "ok", env, wid)

\* more_finfo(finfo, ufile, wanted, whatfile)
more_finfo(finfo, wanted, whatfile, rc, env, wid) ==
    IF ~env.nt THEN guess_protection_bits(finfo, wanted, wid, <<>>)
    ELSE IF wanted \cap (FINFO_PROT \cup FINFO_OWNER) # {}
    THEN MoreSecurity(finfo, wanted, SecurityOK(whatfile, rc, env), env, wid)
    ELSE MoreCsize(finfo, wanted, env, wid, <<>>)

\* an open file as apr_file_info_get sees it: its name, whether the open asked
\* for the link itself and for READ_CONTROL, and "fail" when the file is
\* buffered and its flush fails
OpenFiles == [fname : {fname \in StatNames : Found(fname)} \ {<<"c", ":", "f">>},
              openlink : BOOLEAN, rc : BOOLEAN, flush : {"ok", "fail"}]

OpenFile(fname, openlink, rc) ==
    [fname |-> fname, openlink |-> openlink, rc |-> rc, flush |-> "ok"]

\* apr_file_info_get: the file type after GetFileType(thefile->filehand)
HandleType(t, k) ==
    IF t # "REG" THEN t
    ELSE IF k = "dev" THEN "CHR"
    ELSE IF k = "pipe" THEN "PIPE"
    ELSE "REG"

\* apr_file_info_get: what GetFileInformationByHandle fills in
HandleFinfo(wanted, h, env) ==
    [valid |-> FINFO_MIN \cup (IF "LINK" \in wanted THEN {"LINK"} ELSE {})
                 \cup FINFO_IDENT \cup {"NLINK"},
     filetype |-> HandleType(TypeOf(Attrs(Opened(h.fname, h.openlink), env),
                                    FALSE, h.fname, wanted, env),
                             Opened(h.fname, h.openlink)),
     filled |-> FINFO_MIN \cup FINFO_IDENT \cup {"NLINK"},
     protection |-> AttrProt(Attrs(Opened(h.fname, h.openlink), env)),
     guessed |-> FALSE]

\* apr_file_info_get: "if we still want something more (besides the name)"
InfoGetWantsMore(rest) == rest \ {"NAME"} # {}

\* apr_file_info_get: its end
InfoGetRest(finfo, wanted, rc, env, wid) ==
    IF InfoGetWantsMore(wanted \ finfo.valid)
    THEN After(<<"info">>,
               more_finfo(finfo, wanted \ finfo.valid, "HANDLE", rc, env, wid))
    ELSE Result("SUCCESS", finfo, wid, <<"info">>)

\* apr_file_info_get(finfo, wanted, thefile)
apr_file_info_get(fi0, wanted, h, env, wid) ==
    IF h.flush = "fail" THEN Result("EIO", fi0, wid, <<"flush">>)
    ELSE IF wanted = {"SIZE"}
    THEN IF env.native
         THEN Result("SUCCESS",
                     [fi0 EXCEPT !.valid = {"SIZE"}, !.filled = @ \cup {"SIZE"}],
                     wid, <<"size">>)
         ELSE Result("OSERR", fi0, wid, <<"size">>)
    ELSE IF ~env.native THEN Result("OSERR", fi0, wid, <<"info">>)
    ELSE InfoGetRest(HandleFinfo(wanted, h, env), wanted, h.rc, env, wid)

\* apr_file_open(&thefile, fname, APR_OPENINFO | ..., APR_FPROT_OS_DEFAULT, pool)
apr_file_open(fname, rc, env) ==
    IF ~Found(fname) THEN "ENOENT"
    ELSE IF env.acc = "none" \/ (rc /\ env.acc = "norc") THEN "EACCES"
    ELSE "SUCCESS"

RetryWantedKeepsAll(wanted) == wanted

\* resolve_ident: what its second try asks apr_file_info_get for
RetryWanted(wanted) == wanted \ (FINFO_PROT \cup FINFO_OWNER)

\* a result of resolve_ident with the statuses of its apr_file_open calls and
\* the wanted set it passed to apr_file_info_get (none when it opened no file)
Traced(r, tried, asked) ==
    [rv |-> r.rv, finfo |-> r.finfo, wid |-> r.wid, calls |-> r.calls,
     tried |-> tried, asked |-> asked]

\* resolve_ident: an open file is queried and closed
IdentQuery(opens, r, tried, asked) ==
    Traced([r EXCEPT !.calls = opens \o @ \o <<"close">>], tried, <<asked>>)

\* resolve_ident: the first try and the backup plan
IdentTry(fi0, fname, wanted, openlink, rc, first, env, wid) ==
    IF apr_file_open(fname, rc, env) = "SUCCESS"
    THEN IdentQuery(<<first>>,
             apr_file_info_get(fi0, wanted, OpenFile(fname, openlink, rc), env, wid),
             <<"SUCCESS">>, wanted)
    ELSE IF apr_file_open(fname, rc, env) = "EACCES" /\ rc
    THEN IF apr_file_open(fname, FALSE, env) = "SUCCESS"
         THEN IdentQuery(<<first, "open">>,
                  apr_file_info_get(fi0, RetryWanted(wanted),
                                    OpenFile(fname, openlink, FALSE), env, wid),
                  <<"EACCES", "SUCCESS">>, RetryWanted(wanted))
         ELSE Traced(Result(apr_file_open(fname, FALSE, env), fi0, wid,
                            <<first, "open">>),
                     <<"EACCES", apr_file_open(fname, FALSE, env)>>, <<>>)
    ELSE Traced(Result(apr_file_open(fname, rc, env), fi0, wid, <<first>>),
                <<apr_file_open(fname, rc, env)>>, <<>>)

\* resolve_ident: its end
IdentLink(r, openlink) ==
    IF r.rv \notin {"SUCCESS", "INCOMPLETE"} THEN r
    ELSE IF openlink THEN [r EXCEPT !.finfo.valid = @ \cup {"LINK"}]
    ELSE r

\* resolve_ident(finfo, fname, wanted, pool)
resolve_ident(fi0, fname, wanted, env, wid) ==
    IdentLink(IdentTry(fi0, fname, wanted, "LINK" \in wanted,
                       wanted \cap (FINFO_PROT \cup FINFO_OWNER) # {},
                       IF wanted \cap (FINFO_PROT \cup FINFO_OWNER) # {}
                       THEN "open+rc" ELSE "open",
                       env, wid),
              "LINK" \in wanted)

\* apr_stat: the native query of the attributes
StatQuery(wanted) == IF "NAME" \in wanted THEN "find" ELSE "attributes"

\* apr_stat: the record after fillin_fileinfo and the extra mile it may ask for
StatFilled(id, fill, fname, env) ==
    IF id.rv = "INCOMPLETE" THEN id.finfo
    ELSE IF ~fill.warn THEN fill.finfo
    ELSE IF ~env.fullpath THEN [fill.finfo EXCEPT !.valid = @ \ {"TYPE"}]
    ELSE IF Kind(fname) = "dev" THEN [fill.finfo EXCEPT !.filetype = "CHR"]
    ELSE fill.finfo

StatCalls(id, fill, wanted) ==
    id.calls \o <<StatQuery(wanted)>> \o
    (IF id.rv # "INCOMPLETE" /\ fill.warn THEN <<"fullpath">> ELSE <<>>)

\* apr_stat: the name, when the query was by name
StatNamed(finfo, wanted) ==
    IF "NAME" \in wanted THEN AddValid(finfo, {"NAME"}) ELSE finfo

\* apr_stat: its end
StatFinish(finfo, wanted, env, wid, calls) ==
    IF wanted \ finfo.valid # {}
    THEN After(calls, more_finfo(finfo, wanted \ finfo.valid, "WFSPEC", FALSE, env, wid))
    ELSE Result("SUCCESS", finfo, wid, calls)

\* apr_stat: the query by the name
StatByName(id, fill, fname, wanted, env) ==
    IF "NAME" \in wanted /\ test_safe_name(fname) # "SUCCESS"
    THEN Result(test_safe_name(fname), id.finfo, id.wid, id.calls)
    ELSE IF ~(Found(fname) /\ env.native)
    THEN Result(IF Found(fname) THEN "OSERR" ELSE "ENOENT", id.finfo, id.wid,
                id.calls \o <<StatQuery(wanted)>>)
    ELSE StatFinish(StatNamed(StatFilled(id, fill, fname, env), wanted),
                    wanted, env, id.wid, StatCalls(id, fill, wanted))

\* apr_stat: whether it returns what resolve_ident gave
StatReturnsIdent(rv) == rv = "SUCCESS"

\* apr_stat: what is still wanted after resolve_ident
StatWanted(id, wanted) ==
    IF id.rv = "INCOMPLETE" THEN wanted \ id.finfo.valid ELSE wanted

\* apr_stat: after resolve_ident
StatAfterIdent(id, fname, wanted, env) ==
    IF StatReturnsIdent(id.rv) THEN id
    ELSE StatByName(id,
                    fillin_fileinfo(Attrs(Kind(fname), env), FALSE,
                                    "NAME" \in StatWanted(id, wanted), fname,
                                    StatWanted(id, wanted), env),
                    fname, StatWanted(id, wanted), env)

\* apr_stat: whether the query goes through an open file first
UsesIdent(wanted) ==
    wanted \cap (FINFO_IDENT \cup {"NLINK"}) # {} \/ "LINK" \notin wanted

\* apr_stat(finfo, fname, wanted, pool)
apr_stat(fi0, fname, wanted, env, wid) ==
    IF Len(fname) >= APR_PATH_MAX THEN Result("ENAMETOOLONG", fi0, wid, <<>>)
    ELSE IF UsesIdent(wanted)
    THEN StatAfterIdent(resolve_ident(fi0, fname, wanted, env, wid), fname, wanted, env)
    ELSE StatByName(Result("SUCCESS", fi0, wid, <<>>),
                    fillin_fileinfo(Attrs(Kind(fname), env), FALSE,
                                    "NAME" \in wanted, fname, wanted, env),
                    fname, wanted, env)

\* what resolve_ident did within a query, when the query went through it
NoIdent == [used |-> FALSE, rv |-> "", calls |-> <<>>, tried |-> <<>>, asked |-> <<>>]

IdentOf(id) ==
    [used |-> TRUE, rv |-> id.rv, calls |-> id.calls, tried |-> id.tried,
     asked |-> id.asked]

\* the resolve_ident call of apr_stat(finfo, fname, wanted, pool), if it makes one
StatIdent(fi0, fname, wanted, env, wid) ==
    IF Len(fname) < APR_PATH_MAX /\ UsesIdent(wanted)
    THEN IdentOf(resolve_ident(fi0, fname, wanted, env, wid))
    ELSE NoIdent

\* env: the environment the query ran in; openlink: whether the open file of
\* an apr_file_info_get was opened as the link itself
NoQuery == [op |-> "none", fname |-> <<>>, wanted |-> {}, rv |-> "SUCCESS",
            finfo |-> NoFinfo, calls |-> <<>>, ident |-> NoIdent,
            env |-> BestEnv, openlink |-> FALSE]

Query(op, fname, wanted, r) ==
    [op |-> op, fname |-> fname, wanted |-> wanted, rv |-> r.rv,
     finfo |-> r.finfo, calls |-> r.calls, ident |-> NoIdent,
     env |-> BestEnv, openlink |-> FALSE]

\* apr_stat on a record of the caller: what it leaves
StatCall(fname, wanted, env) ==
    LET r == apr_stat(StaleFinfo, fname, wanted, env, worldid) IN
    /\ slast' = [Query("stat", fname, wanted, r) EXCEPT
                      !.ident = StatIdent(StaleFinfo, fname, wanted, env, worldid),
                      !.env = env]
    /\ worldid' = r.wid
    /\ UNCHANGED StatRest

\* apr_file_info_get on an open file and a record of the caller: what it leaves
InfoGetCall(h, wanted, env) ==
    LET r == apr_file_info_get(StaleFinfo, wanted, h, env, worldid) IN
    /\ slast' = [Query("info", h.fname, wanted, r) EXCEPT
                      !.env = env, !.openlink = h.openlink]
    /\ worldid' = r.wid
    /\ UNCHANGED StatRest

\* the caller is done with the result
SReturn ==
    /\ slast.op # "none"
    /\ slast' = NoQuery
    /\ UNCHANGED worldid
    /\ UNCHANGED StatRest

\* a call of apr_stat
SStat ==
    /\ slast.op = "none"
    /\ \E fname \in StatNames, wanted \in WantedSets, env \in Envs :
           StatCall(fname, wanted, env)

\* a call of apr_file_info_get
SInfoGet ==
    /\ slast.op = "none"
    /\ \E h \in OpenFiles, wanted \in WantedSets, env \in HandleEnvs :
           InfoGetCall(h, wanted, env)

StatNext ==
    \/ SStat
    \/ SInfoGet
    \/ SReturn

----------------------------------------------------------------------------
(* dir.c: apr_dir_open, apr_dir_read, apr_dir_rewind, apr_dir_close *)

MaxCtx == 2         \* native search contexts

CtxIds == 1..MaxCtx

\* a directory entry: the length of its name, whether the name converts to
\* UTF-8, and what it is
Ent(n) == [len |-> n, conv |-> TRUE, kind |-> "reg"]
BadEnt(n) == [len |-> n, conv |-> FALSE, kind |-> "reg"]
SubDir(n) == [len |-> n, conv |-> TRUE, kind |-> "dir"]

\* the directories tried besides the empty one; every name is shorter than
\* the path limit
DirContents == {
    <<Ent(1)>>,
    <<Ent(3), Ent(3)>>,
    <<SubDir(1), Ent(3), Ent(2)>>,
    <<Ent(3), SubDir(1), Ent(3), Ent(2)>>,
    <<Ent(1), BadEnt(2), Ent(2)>> }

\* the names given to apr_dir_open: the directory "d" exists, "x" does not, the
\* empty name is the current directory
DirNames == { <<>>, <<"d">>, <<"d", FS>>, <<"d", BS>>, <<"d", FS, FS>>, <<"x">> }

DirExists(dirname) == Components(dirname) \in { <<>>, << <<"d">> >> }

\* apr_dir_open: the remembered root path
Dirname(dirname) ==
    IF Len(dirname) > 0 /\ dirname[Len(dirname)] # FS
    THEN Append(dirname, FS)
    ELSE dirname

\* FindFirstFileExW(dirname*, ...): a context on the first entry, or failure
FindFirstOK(dirname, native) == native /\ DirExists(dirname) /\ dcont # <<>>
FindFirstError(dirname, native) == IF native THEN "ENOENT" ELSE "OSERR"

FreeCtx == Min({h \in CtxIds : dctx[h] = 0})

\* FindClose(h): fails on a handle that is no open context
FindCloseOK(h, native) == native /\ h # 0 /\ dctx[h] # 0

TooLongNever(k) == FALSE

\* the test of apr_dir_read's skipping loop on the entry at position k
TooLong(k) == dir.rootlen # 0 /\ dir.rootlen + dcont[k].len >= APR_PATH_MAX

\* the position the skipping loop stops at when it starts at k: the first entry
\* from k on that is not too long, Len(dcont) + 1 when FindNextFileW runs out
SkipFrom(k) ==
    LET ok == {q \in k..Len(dcont) : ~TooLong(q)} IN
    IF ok = {} THEN Len(dcont) + 1 ELSE Min(ok)

NoDir == [alloc |-> FALSE, dirhand |-> 0, bof |-> FALSE, rootlen |-> 0,
          dirname |-> <<>>, cleanup |-> FALSE, torn |-> FALSE]

\* since: how the pass began ("open", "rewind"; "closed" once the context is
\* given up); from: the cursor position the rewind found; clean: no call of the
\* pass has failed; reported: the entries the reads of a clean pass reported;
\* exhausted: a read of a clean pass found no entry left; closed: successful
\* apr_dir_close calls with no other call since, counted up to two
NoStream == [since |-> "none", from |-> 0, clean |-> FALSE, reported |-> <<>>,
             exhausted |-> FALSE, closed |-> 0]
NewStream(how, pos) == [NoStream EXCEPT !.since = how, !.from = pos, !.clean = TRUE]
Dirty == [dstream EXCEPT !.clean = FALSE, !.reported = <<>>, !.exhausted = FALSE,
                         !.from = 0, !.closed = 0]
Closed(n) == [NoStream EXCEPT !.since = "closed", !.closed = n]

\* the wanted sets and the environments the reads are tried with
ReadWanted == { {}, FINFO_MIN \cup {"NAME"}, {"CSIZE"}, {"UPROT", "WPROT"} }
ReadEnvs == {env \in Envs :
                \/ env = BestEnv
                \/ env = [BestEnv EXCEPT !.nt = FALSE]
                \/ env = [BestEnv EXCEPT !.sec = "fail"]
                \/ env = [BestEnv EXCEPT !.csize = FALSE]}

\* entry: the entry reported; adv: FindNextFileW calls that advanced the cursor;
\* started: FindFirstFileExW gave a context; closes: a FindClose was issued;
\* stale: on a handle that was no open context; sentinel: dirhand was the invalid
\* sentinel when the call began; prior: dstream.closed when the call began;
\* wanted, finfo: what a read was asked for and the caller's record after it;
\* asked: the wanted set of the more_finfo call of a read, if it made one
NoDirCall == [op |-> "none", rv |-> "SUCCESS", entry |-> 0, adv |-> 0,
              started |-> FALSE, closes |-> FALSE, stale |-> FALSE,
              sentinel |-> FALSE, prior |-> 0, wanted |-> {}, finfo |-> NoFinfo,
              asked |-> <<>>]

ReadAsksAlways(finfo, wanted) == TRUE

\* apr_dir_read: if (wanted &= ~finfo->valid)
ReadAsks(finfo, wanted) == wanted \ finfo.valid # {}

\* apr_dir_read: "go back and get more_info if we can't answer the whole inquiry"
ReadMore(finfo, wanted, env, wid) ==
    IF ReadAsks(finfo, wanted)
    THEN more_finfo(finfo, wanted \ finfo.valid, "WFSPEC", FALSE, env, wid)
    ELSE Result("SUCCESS", finfo, wid, <<>>)

\* apr_dir_read: the record after fillin_fileinfo and the name
ReadFilled(ent, wanted, env) ==
    AddValid(fillin_fileinfo(Attrs(ent.kind, env), FALSE, TRUE, <<>>,
                             wanted, env).finfo,
             {"NAME"})

\* apr_dir_read: the record of the entry it reports
ReadFinfo(ent, wanted, env, wid) ==
    ReadMore(ReadFilled(ent, wanted, env), wanted, env, wid)

\* apr_dir_read: the wanted set it passes to more_finfo, if it calls it
ReadAsked(ent, wanted, env) ==
    IF ReadAsks(ReadFilled(ent, wanted, env), wanted)
    THEN <<wanted \ ReadFilled(ent, wanted, env).valid>>
    ELSE <<>>

DirCall(op, rv) == [NoDirCall EXCEPT !.op = op, !.rv = rv,
                                     !.sentinel = dir.dirhand = 0,
                                     !.prior = dstream.closed]

\* a read that returns before it touches the caller's record
ReadCall(rv, wanted) ==
    [DirCall("read", rv) EXCEPT !.wanted = wanted, !.finfo = StaleFinfo]

\* the FindClose of a dir_cleanup(d), as the call record shows it
WithClose(call, d) == [call EXCEPT !.closes = d.dirhand # 0,
                                   !.stale = d.dirhand # 0 /\ dctx[d.dirhand] = 0]

\* apr_dir_read on the invalid sentinel: start the native search
ReadOpens(d, native) ==
    IF FindFirstOK(d.dirname, native)
    THEN [rv |-> "SUCCESS", d |-> [d EXCEPT !.dirhand = FreeCtx, !.bof = TRUE],
          ctx |-> [dctx EXCEPT ![FreeCtx] = 1]]
    ELSE [rv |-> FindFirstError(d.dirname, native), d |-> d, ctx |-> dctx]

DirCleanupKeepsHandle(d, native) ==
    IF d.dirhand # 0 /\ ~FindCloseOK(d.dirhand, native)
    THEN [rv |-> "OSERR", d |-> d, ctx |-> dctx]
    ELSE [rv |-> "SUCCESS", d |-> d,
          ctx |-> IF d.dirhand # 0 THEN [dctx EXCEPT ![d.dirhand] = 0] ELSE dctx]

\* dir_cleanup(thedir)
DirCleanup(d, native) ==
    IF d.dirhand # 0 /\ ~FindCloseOK(d.dirhand, native)
    THEN [rv |-> "OSERR", d |-> d, ctx |-> dctx]
    ELSE [rv |-> "SUCCESS", d |-> [d EXCEPT !.dirhand = 0],
          ctx |-> IF d.dirhand # 0 THEN [dctx EXCEPT ![d.dirhand] = 0] ELSE dctx]

OpenStatusIgnoresRead(rv) == "SUCCESS"

\* apr_dir_open: the status of its apr_dir_read(NULL, 0, *new)
OpenStatus(rv) == rv

\* before the directory is first opened, other programs fill it
DPopulate(entries) ==
    /\ dlast.op = "none" /\ dcont = <<>>
    /\ dcont' = entries
    /\ UNCHANGED <<dctx, dir, dstream, dlast>>
    /\ UNCHANGED DirRest

\* apr_dir_open(&new, dirname, pool)
DOpen(dirname, native) ==
    LET d0 == [NoDir EXCEPT !.alloc = TRUE, !.dirname = Dirname(dirname),
                            !.rootlen = Len(Dirname(dirname)), !.cleanup = TRUE]
        r == ReadOpens(d0, native)
        rv == OpenStatus(r.rv)
    IN
    /\ ~dir.alloc /\ ~dir.torn
    /\ IF rv = "SUCCESS"
       THEN /\ dir' = r.d
            /\ dctx' = r.ctx
            /\ dstream' = NewStream("open", 0)
       ELSE /\ dir' = NoDir
            /\ dctx' = DirCleanup(r.d, TRUE).ctx
            /\ dstream' = NoStream
    /\ dlast' = [DirCall("open", rv) EXCEPT !.sentinel = TRUE,
                                            !.started = r.rv = "SUCCESS"]
    /\ UNCHANGED dcont
    /\ UNCHANGED DirRest

\* apr_dir_read(finfo, wanted, thedir) with a result record of the caller.
\* native: whether the native calls of this read can succeed at all
DRead(wanted, env, native) ==
    LET h == dir.dirhand
        cur == dctx[h]
        n == Len(dcont)
        \* the position after the step that precedes the skipping loop
        first == IF dir.bof THEN cur ELSE cur + 1
        stop == IF first > n THEN n + 1 ELSE SkipFrom(first)
        moved == stop # cur
    IN
    /\ dir.alloc /\ ~dir.torn
    /\ IF h = 0
       THEN LET r == ReadOpens(dir, native) IN
            /\ dir' = r.d
            /\ dctx' = r.ctx
            /\ dstream' = [Dirty EXCEPT !.since = "closed"]
            /\ dlast' = [ReadCall(r.rv, wanted) EXCEPT !.started = r.rv = "SUCCESS"]
            /\ UNCHANGED worldid
       ELSE IF moved /\ ~native
       THEN \* a FindNextFileW of this call fails for a reason of its own
            /\ dir' = [dir EXCEPT !.bof = FALSE]
            /\ dctx' = dctx
            /\ dstream' = Dirty
            /\ dlast' = ReadCall("OSERR", wanted)
            /\ UNCHANGED worldid
       ELSE IF stop > n
       THEN \* FindNextFileW reports that no entry is left
            /\ dir' = [dir EXCEPT !.bof = FALSE]
            /\ dctx' = [dctx EXCEPT ![h] = n]
            /\ dstream' = IF dstream.clean THEN [dstream EXCEPT !.exhausted = TRUE]
                           ELSE Dirty
            /\ dlast' = [ReadCall("NOMORE", wanted) EXCEPT !.adv = n - cur]
            /\ UNCHANGED worldid
       ELSE IF ~dcont[stop].conv
       THEN \* unicode_to_utf8_path refuses the name
            /\ dir' = [dir EXCEPT !.bof = FALSE]
            /\ dctx' = [dctx EXCEPT ![h] = stop]
            /\ dstream' = Dirty
            /\ dlast' = [ReadCall("EINVAL", wanted) EXCEPT !.adv = stop - cur]
            /\ UNCHANGED worldid
       ELSE LET r == ReadFinfo(dcont[stop], wanted, env, worldid) IN
            /\ dir' = [dir EXCEPT !.bof = FALSE]
            /\ dctx' = [dctx EXCEPT ![h] = stop]
            /\ dstream' = IF dstream.clean
                           THEN [dstream EXCEPT !.reported = Append(@, stop)]
                           ELSE Dirty
            /\ dlast' = [ReadCall(r.rv, wanted) EXCEPT
                             !.entry = stop, !.adv = stop - cur, !.finfo = r.finfo,
                             !.asked = ReadAsked(dcont[stop], wanted, env)]
            /\ worldid' = r.wid
    /\ UNCHANGED dcont
    /\ UNCHANGED <<mutexVars, mkdirVars, slast, sendVars, recvVars>>

RewindNeverReopens(rv) == FALSE

\* apr_dir_rewind: whether it goes on to apr_dir_read(NULL, 0, dir)
RewindReopens(rv) == rv = "SUCCESS"

\* apr_dir_rewind(dir)
DRewind(native, native2) ==
    LET c == DirCleanup(dir, native)
        r == ReadOpens(c.d, native2)
        pos == IF dir.dirhand = 0 THEN 0 ELSE dctx[dir.dirhand]
    IN
    /\ dir.alloc /\ ~dir.torn
    /\ IF ~RewindReopens(c.rv)
       THEN /\ dir' = c.d
            /\ dctx' = c.ctx
            /\ dstream' = Dirty
            /\ dlast' = WithClose(DirCall("rewind", c.rv), dir)
       ELSE /\ dir' = r.d
            /\ dctx' = [h \in CtxIds |->
                           IF r.rv = "SUCCESS" /\ h = r.d.dirhand THEN 1 ELSE c.ctx[h]]
            /\ dstream' = IF r.rv = "SUCCESS" THEN NewStream("rewind", pos)
                           ELSE Closed(0)
            /\ dlast' = [WithClose(DirCall("rewind", r.rv), dir) EXCEPT
                             !.started = r.rv = "SUCCESS"]
    /\ UNCHANGED dcont
    /\ UNCHANGED DirRest

\* apr_dir_close(dir)
DClose(native) ==
    LET c == DirCleanup(dir, native) IN
    /\ dir.alloc /\ ~dir.torn
    /\ dir' = [c.d EXCEPT !.cleanup = FALSE]
    /\ dctx' = c.ctx
    /\ dstream' = IF c.rv = "SUCCESS"
                   THEN Closed(IF dstream.closed = 0 THEN 1 ELSE 2)
                   ELSE [Dirty EXCEPT !.closed = dstream.closed]
    /\ dlast' = WithClose(DirCall("close", c.rv), dir)
    /\ UNCHANGED dcont
    /\ UNCHANGED DirRest

\* destruction of the pool: dir_cleanup runs if it is still registered
DTeardown(native) ==
    LET c == DirCleanup(dir, native) IN
    /\ dir.alloc /\ ~dir.torn
    /\ IF dir.cleanup
       THEN /\ dir' = [c.d EXCEPT !.torn = TRUE]
            /\ dctx' = c.ctx
            /\ dlast' = WithClose(DirCall("teardown", c.rv), dir)
       ELSE /\ dir' = [dir EXCEPT !.torn = TRUE]
            /\ dctx' = dctx
            /\ dlast' = DirCall("teardown", "SUCCESS")
    /\ dstream' = [NoStream EXCEPT !.since = "closed"]
    /\ UNCHANGED dcont
    /\ UNCHANGED DirRest

DirNext ==
    \/ \E entries \in DirContents : DPopulate(entries)
    \/ \E dirname \in DirNames, native \in BOOLEAN : DOpen(dirname, native)
    \/ \E wanted \in ReadWanted, env \in ReadEnvs, native \in BOOLEAN :
           DRead(wanted, env, native)
    \/ \E native \in BOOLEAN, native2 \in BOOLEAN : DRewind(native, native2)
    \/ \E native \in BOOLEAN : DClose(native)
    \/ \E native \in BOOLEAN : DTeardown(native)

(* sendrecv.c: the integer types and the program's constants *)

DwordBits == 3           \* width of DWORD, ULONG, u_long and int, scaled from 32
SizeBits == 4            \* width of apr_size_t, scaled from 64
MAX_SEGMENT_SIZE == 2    \* file bytes per TransmitFile call, scaled from 65536
HdtrBufLen == 2          \* sizeof(hdtrbuf), scaled from 4096
WSABUF_ON_STACK == 1     \* vectors up to this count go on the stack, scaled from 50

MAXDWORD == 2^DwordBits - 1
SIZE_MAX == 2^SizeBits - 1

\* a value converted to DWORD (ULONG, u_long): the low DwordBits bits
ToDword(n) == n % 2^DwordBits

\* apr_size_t arithmetic
ToSize(n) == n % 2^SizeBits

\* a value converted to int: the low DwordBits bits, two's complement
ToInt(n) == IF ToDword(n) >= 2^(DwordBits - 1) THEN ToDword(n) - 2^DwordBits
            ELSE ToDword(n)

\* the io vectors callers pass, as the sequence of their iov_len: nothing, one
\* or two short buffers, two that exceed the staging buffer, one that exceeds
\* it alone, two that exceed MAXDWORD together, one that exceeds it alone, and
\* two whose lengths wrap apr_size_t when added
IoVecs ==
    { <<>>, <<1>>, <<1, 1>>, <<HdtrBufLen, 1>>, <<HdtrBufLen + 1>>,
      <<MAXDWORD, 1>>, <<MAXDWORD + 1>>, <<1, SIZE_MAX>> }

RECURSIVE SumFrom(_, _)
\* the true sum of the lengths vec[i..]
SumFrom(vec, i) == IF i > Len(vec) THEN 0 ELSE vec[i] + SumFrom(vec, i + 1)

VecSum(vec) == SumFrom(vec, 1)

\* one native call as the history keeps it: what was asked (file offset, file
\* bytes, header and trailer bytes, flags), how it ended and the bytes the
\* platform reported for it
Native(api, off, xmit, head, tail, flags, how, sent) ==
    [api |-> api, off |-> off, xmit |-> xmit, head |-> head, tail |-> tail,
     flags |-> flags, how |-> how, sent |-> sent]

----------------------------------------------------------------------------
(* sendrecv.c: apr_socket_send, apr_socket_sendv, apr_socket_sendto *)

\* what a native send can do with n bytes: take them all, take some, or fail
SendOutcomes == {"ok", "partial", "error", "nomem"}

\* bytes a native send reports for a request of n bytes
SentBytes(n, out) ==
    IF out = "partial" /\ n > 0 THEN n - 1 ELSE n

\* WSASend on nbufs buffers whose ULONG lengths add up to n: [err, dwBytes]
WSASend(n, out) ==
    IF out = "error" THEN [err |-> "WSAECONNRESET", dwBytes |-> 0]
    ELSE [err |-> "", dwBytes |-> ToDword(SentBytes(n, out))]

\* apr_socket_send(sock, buf, &len): [rv, len, calls]
apr_socket_send(len, out) ==
    IF WSASend(ToDword(len), out).err # ""
    THEN [rv |-> WSASend(ToDword(len), out).err, len |-> 0,
          calls |-> <<Native("WSASend", 0, ToDword(len), 0, 0, "", out, 0)>>]
    ELSE [rv |-> "SUCCESS", len |-> WSASend(ToDword(len), out).dwBytes,
          calls |-> <<Native("WSASend", 0, ToDword(len), 0, 0, "", out,
                             WSASend(ToDword(len), out).dwBytes)>>]

\* the test of apr_socket_sendv's first loop on one vector
TooBigWraps(iov_len, total_len) == ToSize(total_len + iov_len) > MAXDWORD

TooBig(iov_len, total_len) == iov_len > MAXDWORD - total_len

RECURSIVE TotalLen(_, _, _)
\* apr_socket_sendv's first loop from vector i on: total_len, or -1 when
\* it returns APR_EINVAL
TotalLen(vec, i, total_len) ==
    IF i > Len(vec) THEN total_len
    ELSE IF TooBig(vec[i], total_len) THEN -1
    ELSE TotalLen(vec, i + 1, ToSize(total_len + vec[i]))

RECURSIVE WsaBufLen(_, _)
\* the bytes the WSABUF array describes: each length converted to ULONG
WsaBufLen(vec, i) ==
    IF i > Len(vec) THEN 0 ELSE ToDword(vec[i]) + WsaBufLen(vec, i + 1)

\* apr_socket_sendv(sock, vec, in_vec, &nbytes) with *nbytes = n0 on entry:
\* [rv, nbytes, calls]
apr_socket_sendv(vec, n0, out) ==
    IF TotalLen(vec, 1, 0) < 0
    THEN [rv |-> "EINVAL", nbytes |-> n0, calls |-> <<>>]
    ELSE IF Len(vec) > WSABUF_ON_STACK /\ out = "nomem"
    THEN [rv |-> "ENOMEM", nbytes |-> n0, calls |-> <<>>]
    ELSE [rv |-> IF WSASend(WsaBufLen(vec, 1), out).err # ""
                 THEN WSASend(WsaBufLen(vec, 1), out).err ELSE "SUCCESS",
          nbytes |-> WSASend(WsaBufLen(vec, 1), out).dwBytes,
          calls |-> <<Native("WSASend", 0, WsaBufLen(vec, 1), 0, 0, "", out,
                             WSASend(WsaBufLen(vec, 1), out).dwBytes)>>]

\* apr_socket_sendto(sock, where, flags, buf, &len): sendto takes the length
\* as an int and fails on a negative one
apr_socket_sendto(len, out) ==
    IF out = "error" \/ ToInt(len) < 0
    THEN [rv |-> IF ToInt(len) < 0 THEN "WSAEFAULT" ELSE "WSAECONNRESET",
          len |-> 0,
          calls |-> <<Native("sendto", 0, ToInt(len), 0, 0, "", "error", 0)>>]
    ELSE [rv |-> "SUCCESS", len |-> SentBytes(ToInt(len), out),
          calls |-> <<Native("sendto", 0, ToInt(len), 0, 0, "", out,
                             SentBytes(ToInt(len), out))>>]

----------------------------------------------------------------------------
(* sendrecv.c: collapse_iovec and apr_socket_sendfile *)

MaxSegFault == 3         \* the segments whose native outcome can be chosen

\* no header/trailer structure passed, and one with the given vectors
NoHdtr == [null |-> TRUE, headers |-> <<>>, trailers |-> <<>>]

Hdtr(h, t) == [null |-> FALSE, headers |-> h, trailers |-> t]

\* the header and trailer vectors passed to apr_socket_sendfile
HeaderVecs == IoVecs \ {<<1, SIZE_MAX>>}

TrailerVecs == {<<>>, <<1>>, <<1, 1>>, <<HdtrBufLen, 1>>}

Hdtrs == {NoHdtr} \cup {Hdtr(h, t) : h \in HeaderVecs, t \in TrailerVecs}

\* how a TransmitFile call can end other than by sending everything: failing
\* at once, completing with one byte less or with nothing, a completion whose
\* result cannot be fetched, a wait that times out, is reported abandoned or
\* fails, and a wait satisfied by an earlier transfer that was left pending
SegFaults ==
    {"error", "short", "empty", "resultfail", "timeout", "abandoned",
     "waitfail", "stale"}

\* what the platform does during one apr_socket_sendfile call: whether
\* TransmitFile completes at once or through the overlapped wait, and at most
\* one place where a native call does not do all it was asked
NoFault == [at |-> "none", k |-> 0, how |-> ""]

Faults ==
    {NoFault}
    \cup [at : {"ioctl"}, k : {0}, how : {"error", "size"}]
    \cup [at : {"hsend", "tsend"}, k : {0}, how : {"partial", "error", "nomem"}]
    \cup [at : {"seg"}, k : 1..MaxSegFault, how : SegFaults]

Platform == [mode : {"sync", "pending"}, fault : Faults]

\* the outcome of the vectored send at a site, of segment k
SendvOut(nat, site) == IF nat.fault.at = site THEN nat.fault.how ELSE "ok"

SegHow(nat, k) ==
    IF nat.fault.at = "seg" /\ nat.fault.k = k THEN nat.fault.how
    ELSE IF nat.mode = "sync" THEN "sync" ELSE "full"

\* collapse_iovec(&off, &len, iovec, numvec, buf, buflen) with *len = len0 on
\* entry: [rv, len, copied], copied the bytes memcpy writes from buf on
collapse_iovec(len0, iovec, buflen) ==
    IF Len(iovec) = 1
    THEN [rv |-> "SUCCESS", len |-> iovec[1], copied |-> 0]
    ELSE IF ToSize(len0 + VecSum(iovec)) > buflen
    THEN [rv |-> "INCOMPLETE", len |-> 0, copied |-> 0]
    ELSE [rv |-> "SUCCESS", len |-> ToSize(len0 + VecSum(iovec)),
          copied |-> VecSum(iovec)]

\* a copy of `copied` bytes to hdtrbuf + bufoff writes outside hdtrbuf
Overrun(bufoff, copied) == copied > 0 /\ bufoff + copied > HdtrBufLen

\* the locals of apr_socket_sendfile once *len is cleared; credits and lefts
\* keep, for every loop iteration that got to its end, the file bytes it took
\* off bytes_to_send and bytes_to_send after it
Locals(len0, off0, sk) ==
    [bytes_to_send |-> len0, curoff |-> off0, len |-> 0, status |-> "SUCCESS",
     ptfb |-> FALSE, HeadLength |-> 0, TailLength |-> 0, sendv_trailers |-> FALSE,
     xmitbytes |-> 0, dwFlags |-> "TF_USE_KERNEL_APC", k |-> 0, calls |-> <<>>,
     overrun |-> FALSE, returned |-> FALSE, credits |-> <<>>, lefts |-> <<>>,
     overlapped |-> sk.overlapped, events |-> sk.events, inflight |-> sk.inflight]

\* a return with status rv
Return(st, rv) == [st EXCEPT !.status = rv, !.returned = TRUE]

\* the result of one apr_socket_sendv call added to the locals: its native
\* call, and its bytes when it succeeded; a failure returns its status
AfterSendv(st, r) ==
    IF r.rv # "SUCCESS"
    THEN Return([st EXCEPT !.calls = st.calls \o r.calls], r.rv)
    ELSE [st EXCEPT !.calls = st.calls \o r.calls, !.len = ToSize(st.len + r.nbytes)]

\* the zero byte file: headers, then trailers, by apr_socket_sendv
ZeroTrailers(st, hdtr, nat) ==
    IF st.returned THEN st
    ELSE IF Len(hdtr.trailers) # 0
    THEN Return(AfterSendv(st, apr_socket_sendv(hdtr.trailers, 0, SendvOut(nat, "tsend"))),
                AfterSendv(st, apr_socket_sendv(hdtr.trailers, 0,
                                                SendvOut(nat, "tsend"))).status)
    ELSE Return(st, "SUCCESS")

ZeroFileTrailersOnly(st, hdtr, nat) == ZeroTrailers(st, hdtr, nat)

ZeroFile(st, hdtr, nat) ==
    IF Len(hdtr.headers) # 0
    THEN ZeroTrailers(AfterSendv(st, apr_socket_sendv(hdtr.headers, 0,
                                                      SendvOut(nat, "hsend"))),
                      hdtr, nat)
    ELSE ZeroTrailers(st, hdtr, nat)

\* the headers did not fit: apr_socket_sendv sends them, ptfb goes back to NULL
PuntHeaders(st, hdtr, nat) ==
    [AfterSendv(st, apr_socket_sendv(hdtr.headers, 0, SendvOut(nat, "hsend")))
        EXCEPT !.ptfb = FALSE]

\* the headers collapsed into hdtrbuf (c is collapse_iovec's result)
WithHead(st, c, hdtr, nat) ==
    IF c.rv = "INCOMPLETE"
    THEN PuntHeaders([st EXCEPT !.HeadLength = ToDword(c.len)], hdtr, nat)
    ELSE [st EXCEPT !.ptfb = TRUE, !.HeadLength = ToDword(c.len),
                    !.overrun = Overrun(0, c.copied)]

CollapseHeaders(st, hdtr, nat) ==
    IF ~hdtr.null /\ Len(hdtr.headers) # 0
    THEN WithHead(st, collapse_iovec(st.HeadLength, hdtr.headers, HdtrBufLen), hdtr, nat)
    ELSE st

InitOverlappedEveryCall(st) ==
    IF st.returned THEN st
    ELSE [st EXCEPT !.overlapped = TRUE, !.events = st.events + 1]

\* the overlapped structure and its event, made on the first call that gets here
InitOverlapped(st) ==
    IF st.returned \/ st.overlapped THEN st
    ELSE [st EXCEPT !.overlapped = TRUE, !.events = st.events + 1]

\* the trailers collapsed behind the headers for the last TransmitFile call
WithTail(st, c) ==
    [st EXCEPT !.ptfb = TRUE, !.TailLength = ToDword(c.len),
               !.sendv_trailers = st.sendv_trailers \/ c.rv = "INCOMPLETE",
               !.overrun = st.overrun \/ Overrun(st.HeadLength, c.copied)]

\* the head of the loop body: the size of this segment, and the trailers with
\* the last one
Segment(st, hdtr) ==
    IF st.bytes_to_send > MAX_SEGMENT_SIZE
    THEN [st EXCEPT !.xmitbytes = MAX_SEGMENT_SIZE, !.k = st.k + 1]
    ELSE IF ~hdtr.null /\ Len(hdtr.trailers) # 0
    THEN WithTail([st EXCEPT !.xmitbytes = ToDword(st.bytes_to_send), !.k = st.k + 1],
                  collapse_iovec(st.TailLength, hdtr.trailers,
                                 ToSize(HdtrBufLen - st.HeadLength)))
    ELSE [st EXCEPT !.xmitbytes = ToDword(st.bytes_to_send), !.k = st.k + 1]

\* header and trailer bytes handed to TransmitFile with this segment: the
\* DWORD sum HeadLength + TailLength of the code
HdTl(st) == IF st.ptfb THEN ToDword(st.HeadLength + st.TailLength) ELSE 0

\* the bytes the platform reports for the transfer when it ends in `how`
RawSent(st, how) ==
    IF how = "empty" THEN 0
    ELSE IF how = "short" THEN st.xmitbytes + HdTl(st) - 1
    ELSE IF how = "stale" THEN st.inflight
    ELSE st.xmitbytes + HdTl(st)

\* the TransmitFile call as the history keeps it
Transmit(st, how) ==
    Native("TransmitFile", st.curoff, st.xmitbytes,
           IF st.ptfb THEN st.HeadLength ELSE 0, IF st.ptfb THEN st.TailLength ELSE 0,
           st.dwFlags, how, RawSent(st, how))

\* the status of the loop body after the wait for the pending transfer
WaitStatus(how) ==
    CASE how \in {"full", "short", "empty", "stale"} -> "SUCCESS"
      [] how = "resultfail" -> "WSAECONNABORTED"
      [] how \in {"timeout", "abandoned"} -> "OS_WAIT_TIMEOUT"
      [] how = "waitfail" -> "ERROR_INVALID_HANDLE"
      [] OTHER -> "WSAECONNRESET"

\* the transfer this call leaves pending in the kernel
Inflight(st, how) ==
    IF how \in {"timeout", "abandoned", "waitfail", "stale"}
    THEN st.xmitbytes + HdTl(st) ELSE 0

\* TransmitFile and, when it is pending, the wait and WSAGetOverlappedResult
Transfer(st, how) ==
    IF how = "sync"
    THEN [st EXCEPT !.calls = Append(st.calls, Transmit(st, how)), !.inflight = 0]
    ELSE IF how \in {"full", "short", "empty", "stale"}
    THEN [st EXCEPT !.calls = Append(st.calls, Transmit(st, how)),
                    !.inflight = Inflight(st, how),
                    !.dwFlags = "RESULT",
                    !.xmitbytes = IF st.ptfb THEN ToDword(RawSent(st, how) - HdTl(st))
                                  ELSE ToDword(RawSent(st, how))]
    ELSE [st EXCEPT !.calls = Append(st.calls, Transmit(st, how)),
                    !.inflight = Inflight(st, how),
                    !.status = WaitStatus(how)]

\* the tail of the loop body: the counters, and tfb cleared once it was sent
Account(st) ==
    IF st.status # "SUCCESS" THEN st
    ELSE [st EXCEPT !.bytes_to_send = ToSize(st.bytes_to_send - st.xmitbytes),
                    !.curoff = st.curoff + st.xmitbytes,
                    !.len = ToSize(st.len + st.xmitbytes + HdTl(st)),
                    !.ptfb = FALSE,
                    !.credits = Append(@, st.xmitbytes),
                    !.lefts = Append(@, ToSize(st.bytes_to_send - st.xmitbytes)),
                    !.HeadLength = IF st.ptfb THEN 0 ELSE st.HeadLength,
                    !.TailLength = IF st.ptfb THEN 0 ELSE st.TailLength]

\* how the segment about to start ends: an earlier transfer can satisfy its
\* wait only while one is pending
HowNow(st, nat) ==
    IF SegHow(nat, st.k + 1) = "stale" /\ st.inflight = 0 THEN "full"
    ELSE SegHow(nat, st.k + 1)

RECURSIVE Segments(_, _, _)
\* while (bytes_to_send) { ... if (status != APR_SUCCESS) break; ... }
Segments(st, hdtr, nat) ==
    IF st.returned \/ st.bytes_to_send = 0 \/ st.status # "SUCCESS" THEN st
    ELSE Segments(Account(Transfer(Segment(st, hdtr), HowNow(st, nat))), hdtr, nat)

\* after the loop: the trailers that did not fit, by apr_socket_sendv
SendvTrailers(st, hdtr, nat) ==
    IF st.returned THEN st
    ELSE IF st.status = "SUCCESS" /\ st.sendv_trailers
    THEN Return(AfterSendv(st, apr_socket_sendv(hdtr.trailers, 0, SendvOut(nat, "tsend"))),
                AfterSendv(st, apr_socket_sendv(hdtr.trailers, 0,
                                                SendvOut(nat, "tsend"))).status)
    ELSE Return(st, st.status)

\* apr_socket_sendfile(sock, file, hdtr, &offset, &len, flags) with *len = len0
\* and *offset = off0 on entry: the locals at its return
apr_socket_sendfile(sk, hdtr, off0, len0, nat) ==
    IF nat.fault.at = "ioctl"
    THEN Return([Locals(len0, off0, sk) EXCEPT !.len = len0],
                IF nat.fault.how = "error" THEN "WSAEOPNOTSUPP" ELSE "EINVAL")
    ELSE IF len0 = 0 /\ ~hdtr.null
    THEN ZeroFile(Locals(len0, off0, sk), hdtr, nat)
    ELSE SendvTrailers(
             Segments(InitOverlapped(CollapseHeaders(Locals(len0, off0, sk), hdtr, nat)),
                      hdtr, nat),
             hdtr, nat)

----------------------------------------------------------------------------
(* sendrecv.c: the sending calls as actions *)

\* the sending side of a new socket: no overlapped structure yet
NewSock == [overlapped |-> FALSE, events |-> 0, inflight |-> 0]

\* the file lengths and offsets callers pass: no byte, one, two and three segments
FileLens == {0, MAX_SEGMENT_SIZE, MAX_SEGMENT_SIZE + 1, 2 * MAX_SEGMENT_SIZE + 1}

\* the TransmitFile calls a file of len0 bytes takes when each sends all
NSegs(len0) == (len0 + MAX_SEGMENT_SIZE - 1) \div MAX_SEGMENT_SIZE

\* the platform outcomes that differ for this call: a vectored send can fail
\* only for vectors that are there, segment k only when the file has one, and
\* without a file byte there is no TransmitFile to complete either way
Applies(nat, hdtr, len0) ==
    /\ nat.fault.at = "hsend" => Len(hdtr.headers) # 0
    /\ nat.fault.at = "tsend" => Len(hdtr.trailers) # 0
    /\ nat.fault.at = "seg" => nat.fault.k <= NSegs(len0)
    /\ len0 = 0 => nat.mode = "sync"

Offsets == {0, 1}

\* the buffer lengths callers pass to send and sendto
BufLens == {0, 1, MAXDWORD, MAXDWORD + 1, SIZE_MAX}

\* what a write outside hdtrbuf can do to the caller: nothing visible, a
\* changed *len (the caller's frame lies above hdtrbuf), or the end of the process
Overruns == {"none", "len", "crash"}

\* the sending call in hand with its result: req, off0: the length and the
\* offset passed; curoff: the file offset at the return; calls: the native
\* calls; before: the socket when the call began; nat: what the platform did;
\* credits, lefts: the locals of that name
NoSend ==
    [op |-> "none", rv |-> "", len |-> 0, req |-> 0, off0 |-> 0, curoff |-> 0,
     hdtr |-> NoHdtr, calls |-> <<>>, overrun |-> FALSE, before |-> NewSock,
     nat |-> [mode |-> "sync", fault |-> NoFault], credits |-> <<>>, lefts |-> <<>>]

\* a call of send, sendv or sendto with its result
Sent(op, req, vec, rv, len, calls) ==
    [NoSend EXCEPT !.op = op, !.rv = rv, !.len = len, !.req = req,
                   !.hdtr = Hdtr(vec, <<>>), !.calls = calls, !.before = sock]

\* the result st of an apr_socket_sendfile call, as the caller sees it
SentFile(hdtr, off0, len0, st, ub) ==
    [op |-> "sendfile",
     rv |-> IF ub = "crash" THEN "CRASH" ELSE st.status,
     len |-> IF ub = "len" THEN ToSize(st.len + 1) ELSE st.len,
     req |-> len0, off0 |-> off0, curoff |-> st.curoff, hdtr |-> hdtr,
     calls |-> st.calls, overrun |-> st.overrun, before |-> sock,
     nat |-> [mode |-> "sync", fault |-> NoFault],
     credits |-> st.credits, lefts |-> st.lefts]

\* the socket after the call
SockAfter(st, ub) ==
    IF ub = "crash" THEN NewSock
    ELSE [sock EXCEPT !.overlapped = st.overlapped, !.events = st.events,
                      !.inflight = st.inflight]

\* the calls take their inputs from the sets above; one call at a time: the
\* next starts when the caller has taken the result
NSend ==
    /\ nlast.op = "none"
    /\ \E len \in BufLens, out \in SendOutcomes \ {"nomem"} :
           nlast' = Sent("send", len, <<len>>, apr_socket_send(len, out).rv,
                         apr_socket_send(len, out).len, apr_socket_send(len, out).calls)
    /\ UNCHANGED sock
    /\ UNCHANGED SendRest

NSendv ==
    /\ nlast.op = "none"
    /\ \E vec \in IoVecs, n0 \in {0, 1}, out \in SendOutcomes :
           nlast' = Sent("sendv", n0, vec, apr_socket_sendv(vec, n0, out).rv,
                         apr_socket_sendv(vec, n0, out).nbytes,
                         apr_socket_sendv(vec, n0, out).calls)
    /\ UNCHANGED sock
    /\ UNCHANGED SendRest

NSendto ==
    /\ nlast.op = "none"
    /\ \E len \in BufLens, out \in SendOutcomes \ {"nomem"} :
           nlast' = Sent("sendto", len, <<len>>, apr_socket_sendto(len, out).rv,
                         apr_socket_sendto(len, out).len,
                         apr_socket_sendto(len, out).calls)
    /\ UNCHANGED sock
    /\ UNCHANGED SendRest

\* the call with the locals st it returns with
SendfileEnds(hdtr, off0, len0, st, nat) ==
    \E ub \in Overruns :
        /\ ub # "none" => st.overrun
        /\ nlast' = [SentFile(hdtr, off0, len0, st, ub) EXCEPT !.nat = nat]
        /\ sock' = SockAfter(st, ub)

\* sock->timeout is read at the wait: a wait that times out is one of a call
\* made with a timeout set
NSendfile ==
    /\ nlast.op = "none"
    /\ \E hdtr \in Hdtrs, off0 \in Offsets, len0 \in FileLens, nat \in Platform :
           /\ Applies(nat, hdtr, len0)
           /\ nat.fault.how = "stale" => sock.inflight > 0
           /\ SendfileEnds(hdtr, off0, len0,
                           apr_socket_sendfile(sock, hdtr, off0, len0, nat), nat)
    /\ UNCHANGED SendRest

\* the caller takes the result
NReturn ==
    /\ nlast.op # "none"
    /\ nlast' = NoSend
    /\ UNCHANGED sock
    /\ UNCHANGED SendRest

\* the kernel finishes the transfer that a call left pending
NComplete ==
    /\ nlast.op = "none"
    /\ sock.inflight > 0
    /\ sock' = [sock EXCEPT !.inflight = 0]
    /\ UNCHANGED nlast
    /\ UNCHANGED SendRest

SendNext ==
    \/ NSend
    \/ NSendv
    \/ NSendto
    \/ NSendfile
    \/ NReturn
    \/ NComplete

----------------------------------------------------------------------------
(* sendrecv.c: apr_socket_recv, apr_socket_recvfrom and the receive queue *)

MaxArrive == 3           \* bytes (stream) or datagrams the peer sends in all

\* the receiving side of a socket not yet made, and of a new one of a type
NewRecv == [type |-> "NONE", rbuf |-> <<>>, peer |-> "open", arrived |-> 0]

\* the buffer lengths callers pass to recv and recvfrom
RecvLens == {0, 1, 2, MAXDWORD, MAXDWORD + 1}

\* bytes waiting on a stream socket
Buffered(rs) == IF rs.rbuf = <<>> THEN 0 ELSE rs.rbuf[1]

\* a native receive of at most n bytes (n >= 0): [err, bytes, rbuf]. A stream
\* gives what is buffered up to n, 0 once the peer has closed and the buffer is
\* drained; a datagram socket gives the first datagram whole or fails on a
\* buffer too short for it; with nothing to give the non-blocking call fails.
StreamRecv(rs, n) ==
    IF Buffered(rs) > 0
    THEN [err |-> "",
          bytes |-> IF n < Buffered(rs) THEN n ELSE Buffered(rs),
          rbuf |-> IF n < Buffered(rs) THEN <<Buffered(rs) - n>> ELSE <<>>]
    ELSE IF rs.peer = "closed" THEN [err |-> "", bytes |-> 0, rbuf |-> <<>>]
    ELSE IF rs.peer = "reset" THEN [err |-> "WSAECONNRESET", bytes |-> 0, rbuf |-> <<>>]
    ELSE [err |-> "WSAEWOULDBLOCK", bytes |-> 0, rbuf |-> <<>>]

DgramRecv(rs, n) ==
    IF rs.rbuf = <<>> THEN [err |-> "WSAEWOULDBLOCK", bytes |-> 0, rbuf |-> <<>>]
    ELSE IF rs.rbuf[1] > n THEN [err |-> "WSAEMSGSIZE", bytes |-> 0, rbuf |-> Tail(rs.rbuf)]
    ELSE [err |-> "", bytes |-> rs.rbuf[1], rbuf |-> Tail(rs.rbuf)]

NativeRecv(rs, n) == IF rs.type = "STREAM" THEN StreamRecv(rs, n) ELSE DgramRecv(rs, n)

\* the status of apr_socket_recv for the bytes WSARecv reported
RecvStatusNeverEof(dwBytes) == "SUCCESS"

RecvStatus(dwBytes) == IF dwBytes = 0 THEN "EOF" ELSE "SUCCESS"

\* apr_socket_recv(sock, buf, &len): [rv, len, rbuf]
apr_socket_recv(rs, len) ==
    IF NativeRecv(rs, ToDword(len)).err # ""
    THEN [rv |-> NativeRecv(rs, ToDword(len)).err, len |-> 0,
          rbuf |-> NativeRecv(rs, ToDword(len)).rbuf]
    ELSE [rv |-> RecvStatus(NativeRecv(rs, ToDword(len)).bytes),
          len |-> NativeRecv(rs, ToDword(len)).bytes,
          rbuf |-> NativeRecv(rs, ToDword(len)).rbuf]

\* the status of apr_socket_recvfrom for the bytes recvfrom returned
RecvfromStatus(rv, type) == IF rv = 0 /\ type = "STREAM" THEN "EOF" ELSE "SUCCESS"

\* apr_socket_recvfrom(from, sock, flags, buf, &len): recvfrom takes the length
\* as an int and fails on a negative one
apr_socket_recvfrom(rs, len) ==
    IF ToInt(len) < 0
    THEN [rv |-> "WSAEFAULT", len |-> 0, rbuf |-> rs.rbuf]
    ELSE IF NativeRecv(rs, ToInt(len)).err # ""
    THEN [rv |-> NativeRecv(rs, ToInt(len)).err, len |-> 0,
          rbuf |-> NativeRecv(rs, ToInt(len)).rbuf]
    ELSE [rv |-> RecvfromStatus(NativeRecv(rs, ToInt(len)).bytes, rs.type),
          len |-> NativeRecv(rs, ToInt(len)).bytes,
          rbuf |-> NativeRecv(rs, ToInt(len)).rbuf]

NoRecv == [op |-> "none", rv |-> "", len |-> 0, req |-> 0, before |-> NewRecv]

\* a receive call on the socket as it is, with its result r
Received(op, req, r) ==
    [op |-> op, rv |-> r.rv, len |-> r.len, req |-> req, before |-> rsock]

\* the socket is made, of one type or the other
RSocket ==
    /\ rsock.type = "NONE"
    /\ \E type \in {"STREAM", "DGRAM"} : rsock' = [NewRecv EXCEPT !.type = type]
    /\ UNCHANGED rlast
    /\ UNCHANGED RecvRest

\* the peer sends: n more bytes on a stream, one datagram of n bytes otherwise
PeerSends(n) ==
    IF rsock.type = "STREAM"
    THEN /\ n > 0
         /\ rsock.arrived + n <= MaxArrive
         /\ rsock' = [rsock EXCEPT !.rbuf = <<Buffered(rsock) + n>>,
                                   !.arrived = rsock.arrived + n]
    ELSE /\ rsock.arrived < MaxArrive
         /\ rsock' = [rsock EXCEPT !.rbuf = Append(rsock.rbuf, n),
                                   !.arrived = rsock.arrived + 1]

RPeerSend ==
    /\ rsock.type # "NONE"
    /\ rsock.peer = "open"
    /\ rlast.op = "none"
    /\ \E n \in 0..2 : PeerSends(n)
    /\ UNCHANGED rlast
    /\ UNCHANGED RecvRest

\* the peer of a stream shuts its side down: what it sent stays readable
RPeerClose ==
    /\ rsock.type = "STREAM"
    /\ rsock.peer = "open"
    /\ rlast.op = "none"
    /\ rsock' = [rsock EXCEPT !.peer = "closed"]
    /\ UNCHANGED rlast
    /\ UNCHANGED RecvRest

\* the peer of a stream resets the connection: what was buffered is gone
RPeerReset ==
    /\ rsock.type = "STREAM"
    /\ rsock.peer = "open"
    /\ rlast.op = "none"
    /\ rsock' = [rsock EXCEPT !.peer = "reset", !.rbuf = <<>>]
    /\ UNCHANGED rlast
    /\ UNCHANGED RecvRest

RRecv ==
    /\ rsock.type # "NONE"
    /\ rlast.op = "none"
    /\ \E len \in RecvLens :
           /\ rlast' = Received("recv", len, apr_socket_recv(rsock, len))
           /\ rsock' = [rsock EXCEPT !.rbuf = apr_socket_recv(rsock, len).rbuf]
    /\ UNCHANGED RecvRest

RRecvfrom ==
    /\ rsock.type # "NONE"
    /\ rlast.op = "none"
    /\ \E len \in RecvLens :
           /\ rlast' = Received("recvfrom", len, apr_socket_recvfrom(rsock, len))
           /\ rsock' = [rsock EXCEPT !.rbuf = apr_socket_recvfrom(rsock, len).rbuf]
    /\ UNCHANGED RecvRest

\* the caller takes the result
RReturn ==
    /\ rlast.op # "none"
    /\ rlast' = NoRecv
    /\ UNCHANGED rsock
    /\ UNCHANGED RecvRest

RecvNext ==
    \/ RSocket
    \/ RPeerSend
    \/ RPeerClose
    \/ RPeerReset
    \/ RRecv
    \/ RRecvfrom
    \/ RReturn

----------------------------------------------------------------------------
(* The specifications: one per component, the others at rest *)

Init ==
    /\ kobj = [o \in ObjIds |-> NoObj]
    /\ htab = [p \in Procs |-> [h \in Handles |-> 0]]
    /\ pm = [i \in Inst |-> NoMutex]
    /\ torn = [i \in Inst |-> FALSE]
    /\ alive = [p \in Procs |-> TRUE]
    /\ holds = [p \in Procs |-> [o \in ObjIds |-> 0]]
    /\ mlast = NoCall
    /\ fs = {}
    /\ mk = [c \in MkCallers |-> MkIdle]
    /\ made = {}
    /\ dcont = <<>>
    /\ dctx = [h \in CtxIds |-> 0]
    /\ dir = NoDir
    /\ dstream = NoStream
    /\ dlast = NoDirCall
    /\ worldid = FALSE
    /\ slast = NoQuery
    /\ sock = NewSock
    /\ nlast = NoSend
    /\ rsock = NewRecv
    /\ rlast = NoRecv

SpecMutex == Init /\ [][MutexNext]_vars

SpecPut == Init /\ [][PutNext]_vars

SpecMkdir == Init /\ [][MkdirNext]_vars

\* the same, where a caller inside apr_dir_make_recursive is scheduled: a call
\* once begun runs to its return
SpecMkdirFair ==
    /\ Init /\ [][MkdirFairNext]_vars
    /\ \A c \in MkCallers : WF_vars(MkParent(c) \/ MkBack(c) \/ MkFinal(c))

SpecDir == Init /\ [][DirNext]_vars

SpecStat == Init /\ [][StatNext]_vars

SpecSend == Init /\ [][SendNext]_vars

SpecRecv == Init /\ [][RecvNext]_vars

----------------------------------------------------------------------------
(* Claims about the process mutex *)

\* no destroy call has been made yet: only create, child_init, lock, trylock,
\* timedlock, unlock (and scope teardown or process exit) have run
NoDestroyYet == \A i \in Inst : ~pm[i].closed

SameName(i, j) ==
    /\ pm[i].fname # NullName /\ pm[j].fname # NullName
    /\ res_name_from_filename(pm[i].fname) = res_name_from_filename(pm[j].fname)

\* C1: mutual exclusion across handles.  Instances made by create(name) and
\* child_init(same name) refer to one kernel object, and over any interleaving of
\* lock, trylock, timedlock and unlock at most one live process has been told
\* (by a Success status not yet undone by a successful unlock) that it holds it.
C1_MutualExclusion ==
    /\ \A o \in ObjIds :
           Cardinality({p \in Procs : alive[p] /\ holds[p][o] > 0}) <= 1
    /\ NoDestroyYet =>
           \A i, j \in Inst :
               Usable(i) /\ Usable(j) /\ SameName(i, j) =>
                   /\ ObjOf(ProcOf(i), pm[i].handle) # 0
                   /\ ObjOf(ProcOf(i), pm[i].handle) = ObjOf(ProcOf(j), pm[j].handle)

\* a created instance holds the named mutex while the trylock of another process,
\* through an instance it opened with child_init, has just been refused
C1_Witness ==
    /\ mlast.op = "trylock" /\ mlast.rv = "EBUSY"
    /\ pm[mlast.i].via = "child_init"
    /\ \E j \in Inst :
           /\ Usable(j) /\ pm[j].via = "create" /\ ProcOf(j) # ProcOf(mlast.i)
           /\ SameName(j, mlast.i)
           /\ holds[ProcOf(j)][ObjOf(ProcOf(j), pm[j].handle)] > 0

\* C2: trylock never blocks and returns Busy exactly when another thread owns the
\* mutex; when the mutex is free (or abandoned, or already owned by the caller) it
\* returns Success and the caller owns it; only an invalid handle gives an error.
C2_TryLock ==
    /\ \A i \in Inst :
           (Usable(i) /\ WaitForSingleObject(ProcOf(i), pm[i].handle) = "WAIT_TIMEOUT")
               => ENABLED MTryLock(i)
    /\ mlast.op = "trylock" =>
           /\ (mlast.rv = "EBUSY") <=> (mlast.pre = "other")
           /\ (mlast.rv = "OSERR") <=> (mlast.pre = "invalid")
           /\ (mlast.rv = "SUCCESS") <=> (mlast.pre \in {"free", "self"})
           /\ mlast.rv = "SUCCESS" =>
                  LET p == ProcOf(mlast.i) IN
                  /\ ObjOf(p, pm[mlast.i].handle) # 0
                  /\ kobj[ObjOf(p, pm[mlast.i].handle)].owner = p

\* a trylock was refused because another process owns the mutex
C2_Witness == mlast.op = "trylock" /\ mlast.rv = "EBUSY" /\ mlast.pre = "other"

\* C3: destroy is idempotent: a destroy (or the scope's teardown) that follows a
\* destroy of the same mutex returns Success and issues no native close, so the
\* handle is released exactly once.
C3_DestroyIdempotent ==
    (mlast.op \in {"destroy", "teardown"} /\ mlast.second) =>
        (mlast.rv = "SUCCESS" /\ ~mlast.closes)

----------------------------------------------------------------------------
(* Claims about recursive directory creation *)

\* C4: make_recursive is idempotent: a call that begins after a call on the same
\* path has answered Success (nothing is ever removed) answers Success too.
C4_MakeRecursiveIdempotent ==
    \A c \in MkCallers :
        (mk[c].pc = "done" /\ mk[c].again) => mk[c].rv = "SUCCESS"

\* a second call on a three-component path has answered
C4_Witness ==
    \E c \in MkCallers :
        /\ mk[c].pc = "done" /\ mk[c].again /\ mk[c].rv = "SUCCESS"
        /\ Len(Components(mk[c].path)) = 3

\* C5: with concurrent callers creating overlapping prefixes, no make_recursive
\* call answers "already exists": a lost race, at an intermediate component or at
\* the leaf, ends in Success.
C5_NoExistUnderRace ==
    \A c \in MkCallers : mk[c].pc = "done" => mk[c].rv # "EEXIST"

\* a call that went through dir_make_parent and met a directory that another
\* caller had made in the meantime has answered Success
C5_Witness ==
    \E c \in MkCallers :
        /\ mk[c].pc = "done" /\ mk[c].lost /\ mk[c].rv = "SUCCESS"
        /\ \A k \in 1..Len(mk[c].path) : mk[c].path[k] # "f"

----------------------------------------------------------------------------
(* The directory iterator *)

\* an entry whose root length plus name length reaches the path limit
OverLong(k) == dir.rootlen + dcont[k].len >= APR_PATH_MAX

\* the positions of the native enumeration, over-long entries removed
Kept == SelectSeq([k \in 1..Len(dcont) |-> k], LAMBDA k : ~OverLong(k))

IsPrefix(s, t) == Len(s) <= Len(t) /\ s = SubSeq(t, 1, Len(s))

\* what a pass over the unchanged directory reports while no call fails
PassReportsKept ==
    /\ IsPrefix(dstream.reported, Kept)
    /\ dstream.exhausted => dstream.reported = Kept
    /\ (dstream.reported = <<>> /\ ~dstream.exhausted) =>
           (dir.bof /\ dctx[dir.dirhand] = 1)
    /\ (dstream.reported # <<>> /\ ~dstream.exhausted) =>
           (~dir.bof /\ dctx[dir.dirhand] = dstream.reported[Len(dstream.reported)])

\* C6: after apr_dir_open the reads of an unchanged directory report exactly
\* the native enumeration without its over-long entries, each once and in
\* native order, then exhaustion; the first read reports the prefetched entry
\* without advancing the native cursor, every later one advances it; no
\* over-long entry is ever reported.
C6_Iteration ==
    /\ (dlast.op = "read" /\ dlast.entry # 0) => ~OverLong(dlast.entry)
    /\ (dstream.since = "open" /\ dstream.clean) =>
        /\ PassReportsKept
        /\ (dlast.op = "read" /\ dlast.entry # 0) =>
            /\ dlast.rv \in {"SUCCESS", "INCOMPLETE"}
            /\ dlast.entry = dstream.reported[Len(dstream.reported)]
            /\ (Len(dstream.reported) = 1 /\ ~OverLong(1)) =>
                   (dlast.entry = 1 /\ dlast.adv = 0)
            /\ Len(dstream.reported) > 1 => dlast.adv >= 1
        /\ (dlast.op = "read" /\ dlast.entry = 0) =>
               (dlast.rv = "NOMORE" /\ dstream.exhausted)

C6_Witness ==
    /\ dstream.since = "open" /\ dstream.clean /\ dstream.exhausted
    /\ dlast.op = "read" /\ dlast.rv = "NOMORE"
    /\ Len(dstream.reported) = 2 /\ Len(dcont) = 4

\* C7: apr_dir_close is idempotent: over any closes followed by destruction of
\* the pool no FindClose is issued on a context already released, and every
\* close after the first successful one finds the invalid sentinel and
\* returns Success without a native call; so does the destruction of the pool.
C7_CloseIdempotent ==
    /\ dlast.op \in {"close", "teardown"} => ~dlast.stale
    /\ (dlast.op \in {"close", "teardown"} /\ dlast.prior > 0) =>
           (dlast.sentinel /\ dlast.rv = "SUCCESS" /\ ~dlast.closes)
    /\ dstream.closed > 0 => (dir.dirhand = 0 /\ \A h \in CtxIds : dctx[h] = 0)

C7_Witness ==
    dlast.op = "teardown" /\ dlast.prior = 2 /\ dlast.rv = "SUCCESS"

\* C8: a successful apr_dir_rewind, from any position, has closed the native
\* search context and opened a new one on the first entry, and the reads after
\* it report what the reads after a fresh open of the unchanged directory
\* report.
C8_Rewind ==
    /\ (dlast.op = "rewind" /\ dlast.rv = "SUCCESS") =>
        /\ dlast.started
        /\ ~dlast.sentinel => dlast.closes
        /\ dir.dirhand # 0 /\ dir.bof /\ dctx[dir.dirhand] = 1
        /\ \A h \in CtxIds : h # dir.dirhand => dctx[h] = 0
        /\ dstream.since = "rewind" /\ dstream.clean /\ dstream.reported = <<>>
    /\ (dstream.since = "rewind" /\ dstream.clean) => PassReportsKept

C8_Witness ==
    /\ dstream.since = "rewind" /\ dstream.from = 3 /\ dstream.clean
    /\ dstream.exhausted /\ Len(dstream.reported) = 3

\* C9: apr_dir_open returns Success exactly when the native search was started,
\* and then the handle holds the open context on the first entry with bof set;
\* otherwise it returns the error, gives no handle and leaves no context open.
\* A read of a pass begun by open or rewind never starts the native search.
C9_OpenPrefetches ==
    /\ dlast.op = "open" =>
        /\ dlast.rv = "SUCCESS" <=> dlast.started
        /\ dlast.rv # "SUCCESS" =>
               (~dir.alloc /\ \A h \in CtxIds : dctx[h] = 0)
        /\ dlast.rv = "SUCCESS" =>
               (dir.alloc /\ dir.dirhand # 0 /\ dctx[dir.dirhand] = 1 /\ dir.bof)
    /\ (dlast.op = "read" /\ dstream.since \in {"open", "rewind"}) =>
           (~dlast.sentinel /\ dlast.rv # "ENOENT")

C9_Witness ==
    dlast.op = "open" /\ dlast.rv = "ENOENT" /\ ~dlast.started

----------------------------------------------------------------------------
(* The metadata queries *)

\* C10: a metadata query, by path or by open handle, returns Success exactly
\* when every wanted field is valid in the result and Incomplete exactly when
\* one is not; Success never comes with a wanted field missing from valid.
C10_SuccessMeansSatisfied ==
    (slast.op \in {"stat", "info"} /\ slast.rv \in {"SUCCESS", "INCOMPLETE"}) =>
        (slast.rv = "SUCCESS" <=> slast.wanted \subseteq slast.finfo.valid)

\* C11: every metadata query that returns Success or Incomplete (stat by
\* path, info by handle, directory read) leaves type, size and the three
\* timestamps valid, whatever was wanted.
C11_CheapFieldsValid ==
    /\ (slast.op \in {"stat", "info"} /\ slast.rv \in {"SUCCESS", "INCOMPLETE"}) =>
           FINFO_MIN \subseteq slast.finfo.valid
    /\ (dlast.op = "read" /\ dlast.entry # 0) =>
           FINFO_MIN \subseteq dlast.finfo.valid

\* C12: after a metadata query returns Success or Incomplete, a field of the
\* record holds something other than its zero value only if its bit is set in
\* valid: no field with a clear bit holds a platform-derived or left-over value.
C12_UnsetFieldsAreZero ==
    /\ (slast.op \in {"stat", "info"} /\ slast.rv \in {"SUCCESS", "INCOMPLETE"}) =>
           slast.finfo.filled \subseteq slast.finfo.valid
    /\ (dlast.op = "read" /\ dlast.entry # 0) =>
           dlast.finfo.filled \subseteq dlast.finfo.valid

\* a path that holds a wildcard character
HasWild(fname) == \E k \in 1..Len(fname) : fname[k] \in {"*", "?"}

\* C13: apr_stat on a path that holds '*' or '?' returns BadPath or PathIsWild
\* and has issued no native call, whatever was wanted.
C13_WildcardRejectedFirst ==
    (slast.op = "stat" /\ HasWild(slast.fname)) =>
        (slast.rv \in {"EBADPATH", "EPATHWILD"} /\ slast.calls = <<>>)

----------------------------------------------------------------------------
(* The socket transfer calls *)

\* every native call of the last send call did all it was asked
AllInFull ==
    \A i \in 1..Len(nlast.calls) : nlast.calls[i].how \in {"sync", "full", "ok", "nomem"}

\* C14: an apr_socket_sendfile call for S > 0 file bytes whose native calls all
\* complete in full and which returns Success reports H + S + T bytes, H and T
\* the total header and trailer lengths, and has advanced the file offset by S.
C14_ByteAccounting ==
    (nlast.op = "sendfile" /\ nlast.req > 0 /\ nlast.rv = "SUCCESS" /\ AllInFull) =>
        /\ nlast.len = VecSum(nlast.hdtr.headers) + nlast.req + VecSum(nlast.hdtr.trailers)
        /\ nlast.curoff - nlast.off0 = nlast.req

\* the same without the inputs that leave the arithmetic of the code: a copy
\* outside hdtrbuf, or a header or trailer total above MAXDWORD
InRange ==
    /\ ~nlast.overrun
    /\ VecSum(nlast.hdtr.headers) <= MAXDWORD
    /\ VecSum(nlast.hdtr.trailers) <= MAXDWORD

ByteAccountingInRange == InRange => C14_ByteAccounting

RECURSIVE SentBefore(_)
\* the bytes the platform reported for the first n native calls of the last call
SentBefore(n) == IF n = 0 THEN 0 ELSE nlast.calls[n].sent + SentBefore(n - 1)

\* the wait for the last TransmitFile call timed out or was reported abandoned
WaitGivenUp ==
    /\ nlast.op = "sendfile"
    /\ \E i \in 1..Len(nlast.calls) : nlast.calls[i].how \in {"timeout", "abandoned"}

\* C15: when the wait for a segment times out or is reported abandoned,
\* apr_socket_sendfile returns the timed-out status, that segment is its last
\* native call, and the bytes it reports are those of the native calls that
\* completed before it.
C15_TimeoutAccounting ==
    WaitGivenUp =>
        /\ nlast.rv = "OS_WAIT_TIMEOUT"
        /\ nlast.calls[Len(nlast.calls)].how \in {"timeout", "abandoned"}
        /\ nlast.len = SentBefore(Len(nlast.calls) - 1)

TimeoutAccountingInRange == InRange => C15_TimeoutAccounting

\* C16: apr_socket_sendv on vectors whose lengths add up to more than MAXDWORD
\* returns APR_EINVAL without a native send, also when the sum does not fit
\* apr_size_t; vectors that add up to MAXDWORD or less are not refused.
C16_VectoredSumCheck ==
    nlast.op = "sendv" =>
        /\ VecSum(nlast.hdtr.headers) > MAXDWORD =>
               (nlast.rv = "EINVAL" /\ nlast.calls = <<>>)
        /\ VecSum(nlast.hdtr.headers) <= MAXDWORD => nlast.rv # "EINVAL"

\* a sendv call refused although the sum of its lengths, taken in apr_size_t,
\* is below MAXDWORD
C16_Witness ==
    /\ nlast.op = "sendv"
    /\ VecSum(nlast.hdtr.headers) > SIZE_MAX
    /\ ToSize(VecSum(nlast.hdtr.headers)) <= MAXDWORD
    /\ nlast.rv = "EINVAL"
    /\ nlast.calls = <<>>

\* the peer of the stream socket had closed and nothing was buffered when the
\* last receive call was made
ClosedAndDrained ==
    /\ rlast.before.type = "STREAM"
    /\ rlast.before.peer = "closed"
    /\ rlast.before.rbuf = <<>>

\* C17: apr_socket_recv on a stream socket whose peer has closed and whose
\* buffered data is drained returns APR_EOF with length 0; apr_socket_recv
\* returns Success only with a length above zero, and so does
\* apr_socket_recvfrom on a stream socket.
C17_EofNotEmptySuccess ==
    /\ (rlast.op = "recv" /\ ClosedAndDrained) => (rlast.rv = "EOF" /\ rlast.len = 0)
    /\ (rlast.op = "recv" /\ rlast.rv = "SUCCESS") => rlast.len > 0
    /\ (rlast.op = "recvfrom" /\ rlast.before.type = "STREAM" /\ rlast.rv = "SUCCESS") =>
           rlast.len > 0

\* data arrived, was read, the peer closed, and the next recv reports the end
C17_Witness ==
    /\ rlast.op = "recv"
    /\ ClosedAndDrained
    /\ rlast.before.arrived > 0
    /\ rlast.req > 0
    /\ rlast.rv = "EOF"
    /\ rlast.len = 0

----------------------------------------------------------------------------
(* Claims about bounded waits, abandoned mutexes and mechanisms *)

\* the caller of the last acquiring call owns the kernel object of its handle
CallerOwns ==
    LET p == ProcOf(mlast.i)
        o == ObjOf(p, pm[mlast.i].handle)
    IN  o # 0 /\ kobj[o].owner = p /\ holds[p][o] > 0

\* the kernel object of the last call's handle is owned by the caller
OwnedByCaller ==
    LET p == ProcOf(mlast.i)
        o == ObjOf(p, pm[mlast.i].handle)
    IN  o # 0 /\ kobj[o].owner = p

\* C18: timedlock answers TimedOut, never Busy, when its wait expires while
\* another thread still owns the mutex, and the caller does not own the mutex
\* after TimedOut; when the mutex is free (or the caller's own) by the end of the
\* wait it answers Success and the caller owns the mutex.
C18_TimedLock ==
    mlast.op = "timedlock" =>
        /\ mlast.rv # "EBUSY"
        /\ (mlast.pre = "other") <=> (mlast.rv = "TIMEUP")
        /\ mlast.rv = "TIMEUP" => ~OwnedByCaller
        /\ mlast.pre \in {"free", "self"} => (mlast.rv = "SUCCESS" /\ CallerOwns)

\* a timedlock has timed out on a mutex owned by another process
C18_Witness ==
    /\ mlast.op = "timedlock" /\ mlast.pre = "other" /\ mlast.rv = "TIMEUP"
    /\ mlast.wait = "WAIT_TIMEOUT"

\* C19: an acquisition (lock, trylock or timedlock) whose wait found the mutex
\* abandoned by an owner that died answers Success, and the caller is the owner.
C19_AbandonedIsSuccess ==
    (mlast.op \in {"lock", "trylock", "timedlock"} /\ mlast.wait = "WAIT_ABANDONED")
        => (mlast.rv = "SUCCESS" /\ CallerOwns)

\* a lock call has acquired a mutex whose owner died holding it
C19_Witness ==
    /\ mlast.op = "lock" /\ mlast.wait = "WAIT_ABANDONED"
    /\ \E p \in Procs : ~alive[p]

\* a mechanism outside the two supported ones
OtherMech(mech) == mech \notin {"DEFAULT", "DEFAULT_TIMED"}

\* the step changes no kernel object, no handle table and no mutex instance
\* (the cleanup registration is a field of the instance)
NoEffect == kobj' = kobj /\ htab' = htab /\ pm' = pm /\ holds' = holds

\* C20 as stated: create or put_ex with a mechanism outside the two supported
\* ones answers NotImplemented and has no effect.
C20_UnsupportedMechanism ==
    [][ (mlast'.op \in {"create", "put_ex"} /\ OtherMech(mlast'.mech))
            => (mlast'.rv = "ENOTIMPL" /\ NoEffect) ]_vars

\* C20, amended: create, and put_ex given a scope, with a mechanism outside the
\* two supported ones answer NotImplemented; put_ex without a scope answers
\* NoPool whatever the mechanism; in both cases the call has no effect.
C20_UnsupportedMechanismScoped ==
    [][ (mlast'.op \in {"create", "put_ex"} /\ OtherMech(mlast'.mech))
            => /\ NoEffect
               /\ mlast'.rv = IF mlast'.op = "put_ex" /\ ~mlast'.pool
                              THEN "ENOPOOL" ELSE "ENOTIMPL" ]_vars

\* a put_ex given a scope and an unsupported mechanism was refused on an
\* instance that exists already
C20_Witness ==
    /\ mlast.op = "put_ex" /\ mlast.mech = "FCNTL" /\ mlast.pool
    /\ mlast.rv = "ENOTIMPL"
    /\ pm[mlast.i].alloc

----------------------------------------------------------------------------
(* Claims about re-opening in a child and about injected handles *)

\* nothing of the kernel or of the process's mutex instances changes in the step
MutexUntouched == kobj' = kobj /\ htab' = htab /\ pm' = pm /\ holds' = holds /\ torn' = torn

\* C21: child_init without a name answers Success, calls no native function and
\* leaves the caller's mutex instance (handle, name, cleanup registration) as it
\* was; with a name that no mutex object bears it answers the native error and
\* makes or changes no instance.
C21_ChildInitNoName ==
    [][ mlast'.op = "child_init" =>
          /\ mlast'.fname = NullName =>
                 (mlast'.rv = "SUCCESS" /\ ~mlast'.opens /\ MutexUntouched)
          /\ (mlast'.fname # NullName
                 /\ NamedObjs(res_name_from_filename(mlast'.fname)) = {}) =>
                 (mlast'.rv = "OSERR" /\ MutexUntouched) ]_vars

\* child_init without a name has returned on an instance the process holds
\* already, with its handle and its registered cleanup
C21_Witness ==
    /\ mlast.op = "child_init" /\ mlast.fname = NullName /\ mlast.rv = "SUCCESS"
    /\ Usable(mlast.i) /\ pm[mlast.i].handle # 0 /\ pm[mlast.i].cleanup > 0

\* child_init with a name that no mutex object bears has failed
C21_WitnessNamed ==
    /\ mlast.op = "child_init" /\ mlast.fname # NullName /\ mlast.rv = "OSERR"
    /\ mlast.opens
    /\ NamedObjs(res_name_from_filename(mlast.fname)) = {}

\* the teardown step of an instance whose handle was put in and is open
TeardownOfInjected ==
    /\ mlast'.op = "teardown"
    /\ pm[mlast'.i].injected # "no"
    /\ ObjOf(ProcOf(mlast'.i), pm[mlast'.i].handle) # 0

\* the step closes the handle the instance held
ReleasesHandle == htab'[ProcOf(mlast'.i)][pm[mlast'.i].handle] = 0

\* C22: put_ex (and put) without a scope answers NoPool and changes nothing; the
\* teardown of the scope releases a handle that was put in exactly when the call
\* that put it in asked for the cleanup registration, and never after put.
C22_InjectedOwnership ==
    [][ /\ (mlast'.op \in {"put_ex", "put"} /\ ~mlast'.pool) =>
               (mlast'.rv = "ENOPOOL" /\ MutexUntouched)
        /\ TeardownOfInjected =>
               (ReleasesHandle <=> pm[mlast'.i].injected = "reg") ]_vars

\* the same for a handle put into a new instance (*pmutex was NULL), which no
\* destroy has closed since
InjectedIntoNew ==
    [][ /\ (mlast'.op \in {"put_ex", "put"} /\ ~mlast'.pool) =>
               (mlast'.rv = "ENOPOOL" /\ MutexUntouched)
        /\ (TeardownOfInjected /\ pm[mlast'.i].via = "put_ex" /\ ~pm[mlast'.i].closed) =>
               (ReleasesHandle <=> pm[mlast'.i].injected = "reg") ]_vars

\* the teardown has closed an open handle that put_ex had put into a new instance
\* with the cleanup registered
InjectedIntoNewWitness ==
    /\ mlast.op = "teardown" /\ mlast.closes /\ mlast.i \in PutInst
    /\ ~mlast.second

----------------------------------------------------------------------------
(* Claims about the directory handle *)

\* a path that ends in a separator which no separator precedes
EndsInOneSeparator(path) ==
    /\ Len(path) > 0
    /\ IsSep(path[Len(path)])
    /\ Len(path) > 1 => ~IsSep(path[Len(path) - 1])

\* C23: the root path an open directory remembers ends in exactly one separator,
\* whatever path was passed to open (no, one or several trailing separators of
\* either kind, or the empty path).
C23_RootEndsInOneSeparator == dir.alloc => EndsInOneSeparator(dir.dirname)

\* what open does ensure: a root path that is not empty ends in a slash
RootEndsInSlash ==
    (dir.alloc /\ dir.dirname # <<>>) => dir.dirname[Len(dir.dirname)] = FS

\* C24: in every state of a directory handle, whatever open, read, rewind, close
\* and teardown calls came before and whichever of their native calls failed,
\* dirhand is the invalid sentinel or an open search context, never a closed one.
C24_HandleSentinelOrOpen ==
    (dir.alloc /\ dir.dirhand # 0) => dctx[dir.dirhand] # 0

\* a close or rewind has failed in FindClose and the handle still holds the
\* context, which is open
C24_Witness ==
    /\ dlast.op \in {"close", "rewind"} /\ dlast.rv = "OSERR" /\ dlast.closes
    /\ dir.alloc /\ dir.dirhand # 0 /\ dctx[dir.dirhand] # 0

\* a rewind has closed the context and FindFirstFileExW has then failed: the
\* handle is the sentinel
C24_WitnessSentinel ==
    /\ dlast.op = "rewind" /\ dlast.rv # "SUCCESS" /\ dlast.closes
    /\ dir.alloc /\ dir.dirhand = 0 /\ ~dlast.sentinel

----------------------------------------------------------------------------
(* Claims about the tiers of the metadata resolver *)

IsOpenCall(c) == c \in {"open", "open+rc"}
IsCloseCall(c) == c = "close"

\* the protection and owner fields of a wanted set
ProtOwner(wanted) == wanted \cap (FINFO_PROT \cup FINFO_OWNER)

\* the apr_file_open calls of the by-handle tier that succeeded
OpenedFiles(tried) == {k \in 1..Len(tried) : tried[k] = "SUCCESS"}

\* C25: the by-handle tier opens the file at most twice; a second open is made
\* exactly when the first failed with permission-denied and protection or owner
\* fields are wanted; it asks for no READ_CONTROL and its query is for the wanted
\* set less exactly the protection and owner fields; any other failure of an
\* open is returned without a retry; every file opened is closed before the end.
C25_OneDegradedRetry ==
    slast.ident.used =>
        LET id == slast.ident
            opens == SelectSeq(id.calls, IsOpenCall)
            closes == SelectSeq(id.calls, IsCloseCall)
        IN
        /\ Len(opens) = Len(id.tried) /\ Len(opens) \in {1, 2}
        /\ opens[1] = IF ProtOwner(slast.wanted) # {} THEN "open+rc" ELSE "open"
        /\ Len(opens) = 2 <=>
               (id.tried[1] = "EACCES" /\ ProtOwner(slast.wanted) # {})
        /\ Len(opens) = 2 => opens[2] = "open"
        /\ Len(id.asked) = Cardinality(OpenedFiles(id.tried))
        /\ (Len(opens) = 1 /\ id.asked # <<>>) => id.asked[1] = slast.wanted
        /\ (Len(opens) = 2 /\ id.asked # <<>>) =>
               id.asked[1] = slast.wanted \ (FINFO_PROT \cup FINFO_OWNER)
        /\ id.tried[Len(id.tried)] # "SUCCESS" => id.rv = id.tried[Len(id.tried)]
        /\ Len(closes) = Cardinality(OpenedFiles(id.tried))
        /\ id.asked # <<>> => id.calls[Len(id.calls)] = "close"

\* a query that wants the owner and more was refused READ_CONTROL, opened the
\* file again without it and asked for the rest
C25_Witness ==
    /\ slast.op = "stat" /\ slast.ident.used
    /\ slast.ident.tried = <<"EACCES", "SUCCESS">>
    /\ ProtOwner(slast.wanted) # {}
    /\ slast.ident.asked # <<>>
    /\ slast.ident.asked[1] # {} /\ slast.ident.asked[1] # slast.wanted


\* ---- Claims about the synthesized permission bits ----

\* the read/write/execute triple of a scope, as bits 0..2
Triple(protection, scope) ==
    {b \in 0..2 : b + scope \in protection}

\* the last query wanted permission bits and guess_protection_bits made them up
Synthesized ==
    /\ slast.op # "none"
    /\ slast.wanted \cap FINFO_PROT # {}
    /\ slast.finfo.guessed

\* C26: when permission bits are wanted and guess_protection_bits makes them up
\* for want of a security descriptor, the user, group and world triples of the
\* result are the same, read and execute are set in them, write is set exactly
\* when the read-only flag is clear, and the three scopes are marked valid
C26_SynthesizedPermissions ==
    Synthesized =>
        /\ Triple(slast.finfo.protection, 8) = Triple(slast.finfo.protection, 0)
        /\ Triple(slast.finfo.protection, 4) = Triple(slast.finfo.protection, 0)
        /\ {0, 2} \subseteq Triple(slast.finfo.protection, 0)
        /\ 1 \in Triple(slast.finfo.protection, 0) <=> 28 \notin slast.finfo.protection
        /\ {"UPROT", "GPROT", "WPROT"} \subseteq slast.finfo.valid

\* permission bits were made up for a read-only file
C26_Witness ==
    /\ Synthesized
    /\ 28 \in slast.finfo.protection
    /\ Triple(slast.finfo.protection, 8) = {0, 2}

\* permission bits were made up for a file that can be written
C26_WitnessWritable ==
    /\ Synthesized
    /\ 28 \notin slast.finfo.protection
    /\ Triple(slast.finfo.protection, 4) = {0, 1, 2}

\* ---- Claims about the type of links and of other reparse points ----

\* the last query gave a type
TypeReported ==
    /\ slast.op # "none"
    /\ slast.rv \in {"SUCCESS", "INCOMPLETE"}
    /\ "TYPE" \in slast.finfo.valid

\* the entry the last query looked at: the one its open file refers to, or the
\* one of the name
EntrySeen ==
    IF slast.op = "info" THEN Opened(slast.fname, slast.openlink)
    ELSE IF "LINK" \in slast.wanted THEN Kind(slast.fname)
    ELSE Opened(slast.fname, FALSE)

\* the types an entry that is no link to the caller may be reported with
UnderlyingTypes(k) ==
    CASE k \in {"dir", "jn"} -> {"DIR"}
      [] k = "dev" -> {"CHR"}
      [] k = "pipe" -> {"PIPE", "REG"}
      [] OTHER -> {"REG"}

\* the entry is a reparse point whose tag is a name surrogate, asked about
\* with the link field
AskedAboutLink ==
    /\ "LINK" \in slast.wanted
    /\ Attrs(EntrySeen, slast.env).reparse
    /\ Attrs(EntrySeen, slast.env).surrogate

\* the type of the last query came from an open file
TypeByHandle ==
    \/ slast.op = "info"
    \/ slast.ident.used /\ slast.ident.rv \in {"SUCCESS", "INCOMPLETE"}

\* the tag of the entry was at hand: in the find data of a query by name that
\* wanted the name, or from the lookup of the name, which succeeded
TagAtHand ==
    \/ ~TypeByHandle /\ "NAME" \in slast.wanted
    \/ slast.env.find

\* C27: a query reports the type symlink exactly when the link field is wanted
\* and the entry is a reparse point whose tag is a name surrogate; every other
\* entry is reported by its underlying type
C27_LinkIffSurrogate ==
    TypeReported =>
        /\ slast.finfo.filetype = "LNK" <=> AskedAboutLink
        /\ slast.finfo.filetype # "LNK" =>
               slast.finfo.filetype \in UnderlyingTypes(EntrySeen)

\* what holds of it: the type is symlink exactly when, besides, the tag was at
\* hand; a reparse point that is not reported as a link, and any entry asked
\* about without the link field, is reported by its underlying type
LinkIffSurrogateTagAtHand ==
    TypeReported =>
        /\ slast.finfo.filetype = "LNK" <=> (AskedAboutLink /\ TagAtHand)
        /\ slast.finfo.filetype # "LNK" =>
               slast.finfo.filetype \in UnderlyingTypes(EntrySeen)

\* a junction asked about with the link field is reported as a link
LinkReportedWitness ==
    /\ TypeReported /\ AskedAboutLink
    /\ slast.fname = <<"j">>
    /\ slast.finfo.filetype = "LNK"

\* a link asked about with the link field whose lookup failed
LinkMissedWitness ==
    /\ TypeReported /\ AskedAboutLink /\ ~TagAtHand
    /\ slast.finfo.filetype = "REG"

\* ---- Claims about the compressed size ----

\* the calls of the last query that asked the system for a compressed size
CsizeCalls == {k \in 1..Len(slast.calls) : slast.calls[k] = "csize"}

\* C28: the compressed size is asked for only when it is wanted and the type
\* found is regular: a result with a valid compressed size has the type
\* regular, and a query that wants the compressed size of anything else ends
\* incomplete with the compressed size not valid
C28_CsizeOnlyRegular ==
    /\ (slast.op # "none" /\ CsizeCalls # {}) =>
           ("CSIZE" \in slast.wanted /\ slast.finfo.filetype = "REG")
    /\ (slast.op # "none" /\ slast.rv \in {"SUCCESS", "INCOMPLETE"}) =>
           /\ "CSIZE" \in slast.finfo.valid => slast.finfo.filetype = "REG"
           /\ ("CSIZE" \in slast.wanted /\ slast.finfo.filetype # "REG") =>
                  (slast.rv = "INCOMPLETE" /\ "CSIZE" \notin slast.finfo.valid)

\* the compressed size of a directory was wanted
C28_Witness ==
    /\ slast.op # "none" /\ "CSIZE" \in slast.wanted
    /\ slast.finfo.filetype = "DIR"
    /\ slast.rv = "INCOMPLETE"
    /\ slast.env.nt /\ slast.env.csize

\* the compressed size of a regular file was wanted and given
C28_WitnessRegular ==
    /\ slast.op # "none" /\ CsizeCalls # {}
    /\ "CSIZE" \in slast.finfo.valid
    /\ slast.finfo.filetype = "REG"

\* ---- Claims about send_file with headers and trailers ----

\* the last call was a send_file of no file byte with headers or trailers
ZeroByteFile ==
    /\ nlast.op = "sendfile"
    /\ nlast.req = 0
    /\ ~nlast.hdtr.null
    /\ Len(nlast.hdtr.headers) # 0 \/ Len(nlast.hdtr.trailers) # 0

\* what the vectored send of its headers, and of its trailers, does
HeadSend == apr_socket_sendv(nlast.hdtr.headers, 0, SendvOut(nlast.nat, "hsend"))

TailSend == apr_socket_sendv(nlast.hdtr.trailers, 0, SendvOut(nlast.nat, "tsend"))

HeadSent == Len(nlast.hdtr.headers) # 0 /\ HeadSend.rv = "SUCCESS"

HeadFailed == Len(nlast.hdtr.headers) # 0 /\ HeadSend.rv # "SUCCESS"

TailTried == ~HeadFailed /\ Len(nlast.hdtr.trailers) # 0

\* no file transfer call, the vectored send of the headers and then the one of
\* the trailers; Success with the bytes the sends reported, or the error of
\* the send that failed with the bytes of the send before it
ZeroByteOutcome ==
    /\ \A k \in 1..Len(nlast.calls) : nlast.calls[k].api = "WSASend"
    /\ nlast.calls = (IF Len(nlast.hdtr.headers) # 0 THEN HeadSend.calls ELSE <<>>)
                     \o (IF TailTried THEN TailSend.calls ELSE <<>>)
    /\ nlast.rv = IF HeadFailed THEN HeadSend.rv
                  ELSE IF TailTried THEN TailSend.rv
                  ELSE "SUCCESS"
    /\ nlast.len = (IF HeadSent THEN HeadSend.nbytes ELSE 0)
                   + (IF TailTried /\ TailSend.rv = "SUCCESS" THEN TailSend.nbytes
                      ELSE 0)

\* C29: send_file of a zero-length file with headers or trailers issues no
\* file transfer call, sends the headers and then the trailers with vectored
\* sends, and returns Success with the bytes those reported, or the error of a
\* failing vectored send with the bytes of the sends that succeeded before it
C29_ZeroByteFile ==
    ZeroByteFile => ZeroByteOutcome

\* C29, for the calls that obtained the pointer to the transfer function
C29_ZeroByteFileAfterLookup ==
    (ZeroByteFile /\ nlast.nat.fault.at # "ioctl") => ZeroByteOutcome

\* headers and trailers of a zero byte file were sent, the trailers in part
C29_Witness ==
    /\ ZeroByteFile /\ nlast.nat.fault = [at |-> "tsend", k |-> 0, how |-> "partial"]
    /\ Len(nlast.calls) = 2
    /\ nlast.rv = "SUCCESS"
    /\ nlast.len = nlast.calls[1].sent + nlast.calls[2].sent
    /\ nlast.calls[2].sent < nlast.calls[2].xmit

\* the send of the trailers of a zero byte file failed after the headers went
C29_WitnessFailed ==
    /\ ZeroByteFile /\ HeadSent /\ TailTried
    /\ nlast.rv \notin {"SUCCESS", "CRASH"}
    /\ nlast.len = HeadSend.nbytes /\ nlast.len > 0

\* the last call was a send_file of file bytes that returned Success
FileSent ==
    /\ nlast.op = "sendfile"
    /\ nlast.req > 0
    /\ nlast.rv = "SUCCESS"

\* the TransmitFile calls among the native calls of the last call
Segs == {k \in 1..Len(nlast.calls) : nlast.calls[k].api = "TransmitFile"}

\* the headers went out once and before any file byte: in full with the first
\* TransmitFile call, or in full by a vectored send before it, and with no
\* other call
HeadersOnceFirst ==
    IF VecSum(nlast.hdtr.headers) > 0
    THEN \/ /\ nlast.calls[1].api = "TransmitFile"
            /\ nlast.calls[1].head = VecSum(nlast.hdtr.headers)
            /\ \A k \in Segs \ {1} : nlast.calls[k].head = 0
         \/ /\ nlast.calls[1].api = "WSASend"
            /\ nlast.calls[1].sent = VecSum(nlast.hdtr.headers)
            /\ \A k \in Segs : nlast.calls[k].head = 0
    ELSE /\ nlast.calls[1].api = "TransmitFile"
         /\ \A k \in Segs : nlast.calls[k].head = 0

\* the trailers went out once and after the last file byte: in full with the
\* last TransmitFile call, or in full by a vectored send after it, and with no
\* other call
TrailersOnceLast ==
    LET n == Len(nlast.calls) IN
    IF VecSum(nlast.hdtr.trailers) > 0
    THEN \/ /\ nlast.calls[n].api = "TransmitFile"
            /\ nlast.calls[n].tail = VecSum(nlast.hdtr.trailers)
            /\ \A k \in Segs \ {n} : nlast.calls[k].tail = 0
         \/ /\ nlast.calls[n].api = "WSASend"
            /\ n - 1 \in Segs
            /\ nlast.calls[n].sent = VecSum(nlast.hdtr.trailers)
            /\ \A k \in Segs : nlast.calls[k].tail = 0
    ELSE /\ nlast.calls[n].api = "TransmitFile"
         /\ \A k \in Segs : nlast.calls[k].tail = 0

\* C30: in a send_file of a non-empty file that returns Success the header
\* bytes go out exactly once and before any file byte (with the first segment
\* or by a vectored send before it), the trailer bytes exactly once and after
\* the last file byte (with the final segment or by a vectored send after the
\* loop), and no segment in between carries headers or trailers
C30_HeadersFirstTrailersLast ==
    FileSent => (Segs # {} /\ HeadersOnceFirst /\ TrailersOnceLast)

\* the same for the calls whose native calls all did what they were asked and
\* which stay inside hdtrbuf and MAXDWORD
OrderingInRange ==
    (InRange /\ AllInFull) => C30_HeadersFirstTrailersLast

\* three segments in full, headers with the first and trailers with the last
OrderingWitness ==
    /\ FileSent /\ InRange /\ AllInFull
    /\ Len(nlast.calls) = 3 /\ Segs = {1, 2, 3}
    /\ nlast.calls[1].head > 0 /\ nlast.calls[3].tail > 0

\* headers and trailers that did not fit the staging buffer
OrderingWitnessPunted ==
    /\ FileSent /\ InRange /\ AllInFull
    /\ nlast.calls[1].api = "WSASend"
    /\ nlast.calls[Len(nlast.calls)].api = "WSASend"
    /\ Cardinality(Segs) >= 2

\* ---- Claims about the overlapped structure of a socket ----

\* C31: a socket has at most one overlapped structure with one event: the
\* first send_file call that gets to the set-up of the transfer loop makes
\* them, every later call finds them and makes none, and no TransmitFile call
\* is made without them
C31_OneOverlapped ==
    [][ /\ sock'.events <= 1
        /\ sock'.overlapped <=> sock'.events = 1
        /\ (sock.overlapped /\ nlast'.rv # "CRASH") =>
               (sock'.overlapped /\ sock'.events = sock.events)
        /\ (nlast'.op = "sendfile" /\ nlast'.rv # "CRASH" /\
            \E k \in 1..Len(nlast'.calls) : nlast'.calls[k].api = "TransmitFile") =>
               sock'.overlapped ]_vars

\* a send_file call on a socket that had its overlapped structure already
C31_Witness ==
    /\ nlast.op = "sendfile" /\ nlast.before.overlapped
    /\ Segs # {}
    /\ sock.overlapped /\ sock.events = 1

\* the send_file call that made the overlapped structure
C31_WitnessFirst ==
    /\ nlast.op = "sendfile" /\ ~nlast.before.overlapped
    /\ sock.overlapped /\ sock.events = 1

\* ---- Claims about the results of a directory read ----

\* the fields the enumeration data make valid, with the name
EnumValid == FINFO_MIN \cup {"LINK", "NAME"}

\* the last read has the name valid in the record of the caller and stands for
\* an entry of the directory
NameReported ==
    /\ dlast.entry # 0
    /\ "NAME" \in dlast.finfo.valid /\ "NAME" \in dlast.finfo.filled

\* the last read called more_finfo exactly when a wanted field was not valid
\* from the enumeration data, with the wanted fields less the valid ones, and
\* returned its status
ResolverAsNeeded ==
    /\ dlast.asked # <<>> <=> dlast.wanted \ EnumValid # {}
    /\ dlast.asked # <<>> =>
           /\ dlast.asked = <<dlast.wanted \ EnumValid>>
           /\ dlast.rv = IF dlast.asked[1] \ dlast.finfo.valid # {}
                         THEN "INCOMPLETE" ELSE "SUCCESS"
    /\ dlast.asked = <<>> =>
           /\ dlast.rv = "SUCCESS"
           /\ dlast.finfo.valid = EnumValid /\ ~dlast.finfo.guessed

\* C32: every successful read reports the name of an entry as valid, and a
\* read calls the resolver exactly when the wanted set has a field that the
\* enumeration data did not make valid, with the wanted set less the valid
\* fields, and returns the status of the resolver
C32_ReadNameAndResolver ==
    /\ (dlast.op = "read" /\ dlast.rv = "SUCCESS") => NameReported
    /\ (dlast.op = "read" /\ dlast.rv \in {"SUCCESS", "INCOMPLETE"}) =>
           ResolverAsNeeded

\* the same for the reads that find the search open when they begin
ReadOnOpenSearch ==
    (dlast.op = "read" /\ ~dlast.sentinel /\
     dlast.rv \in {"SUCCESS", "INCOMPLETE"}) =>
        (NameReported /\ ResolverAsNeeded)

\* a read that called the resolver and returned its Incomplete
ReadAskedWitness ==
    /\ dlast.op = "read" /\ ~dlast.sentinel
    /\ dlast.asked # <<>> /\ dlast.rv = "INCOMPLETE"
    /\ NameReported

\* a read that had no need of the resolver
ReadNotAskedWitness ==
    /\ dlast.op = "read" /\ ~dlast.sentinel
    /\ dlast.asked = <<>> /\ dlast.wanted # {} /\ dlast.rv = "SUCCESS"
    /\ NameReported

\* C38: a read with a result record of the caller that returns Success has
\* reported an entry, its name valid and set, whatever the state of the handle
\* was: also after a close and after a rewind whose reopen failed
C38_SuccessReportsEntry ==
    (dlast.op = "read" /\ dlast.rv = "SUCCESS") =>
        (dlast.entry # 0 /\ "NAME" \in dlast.finfo.valid
                         /\ "NAME" \in dlast.finfo.filled)

\* a read after a close that returned Success and left the record untouched
ReadAfterCloseUntouched ==
    /\ dlast.op = "read" /\ dlast.rv = "SUCCESS"
    /\ dlast.sentinel /\ dlast.prior > 0
    /\ dlast.entry = 0 /\ dlast.finfo = StaleFinfo

\* a read that found the search open and returned Success reported an entry
ReadOnOpenSearchReportsEntry ==
    (dlast.op = "read" /\ dlast.rv = "SUCCESS" /\ ~dlast.sentinel) =>
        (dlast.entry # 0 /\ "NAME" \in dlast.finfo.valid)

\* ---- Claims about the segments of send_file ----

\* the positions of the TransmitFile calls among the native calls, in order
SegSeq == SelectSeq([k \in 1..Len(nlast.calls) |-> k],
                    LAMBDA k : nlast.calls[k].api = "TransmitFile")

RECURSIVE Credited(_)
\* the file bytes credited by the first n loop iterations that got to their end
Credited(n) == IF n = 0 THEN 0 ELSE nlast.credits[n] + Credited(n - 1)

\* every TransmitFile call asks for at most MAX_SEGMENT_SIZE file bytes, at
\* the starting offset plus the file bytes credited for the calls before it
SegmentsInStep ==
    \A i \in 1..Len(SegSeq) :
        /\ nlast.calls[SegSeq[i]].xmit <= MAX_SEGMENT_SIZE
        /\ i - 1 <= Len(nlast.credits)
        /\ nlast.calls[SegSeq[i]].off = nlast.off0 + Credited(i - 1)

\* after every loop iteration the file bytes credited and the file bytes left
\* add up to the length asked for
CreditedPlusLeft ==
    \A n \in 1..Len(nlast.credits) : Credited(n) + nlast.lefts[n] = nlast.req

\* C33: every TransmitFile call of send_file asks for at most the segment
\* size, at the starting offset plus the file bytes credited to the earlier
\* segments, and at every loop iteration the file bytes credited and the file
\* bytes left add up to the length asked for
C33_Segmentation ==
    (nlast.op = "sendfile" /\ nlast.rv # "CRASH") =>
        (SegmentsInStep /\ CreditedPlusLeft)

\* the same for the calls whose completions report no less than the headers
\* and trailers handed over and no more than was asked
SegmentationOfFullCompletions ==
    (nlast.op = "sendfile" /\ nlast.rv # "CRASH" /\
     \A k \in 1..Len(nlast.calls) :
         nlast.calls[k].how \notin {"short", "empty", "stale"}) =>
        (SegmentsInStep /\ CreditedPlusLeft)

\* three segments went out in full
SegmentationWitness ==
    /\ nlast.op = "sendfile" /\ nlast.rv = "SUCCESS"
    /\ Len(SegSeq) = 3 /\ Len(nlast.credits) = 3
    /\ nlast.lefts[3] = 0 /\ nlast.lefts[1] > MAX_SEGMENT_SIZE
    /\ nlast.off0 > 0

----------------------------------------------------------------------------
(* Claims about the recursion of apr_dir_make_recursive *)

\* the number of backslashes of a path
NumSep(path) == Cardinality({k \in 1..Len(path) : path[k] = BS})

\* caller c is inside dir_make_parent or on the way back from it
InParentChain(c) == mk[c].pc \in {"parent", "back"}

\* the paths of the dir_make_parent frames of caller c, innermost first: each is
\* the one above it cut at its last backslash, the outermost is the merged path
\* cut at its last backslash
RECURSIVE CutsInStep(_, _)
CutsInStep(stack, top) ==
    \/ stack = <<>>
    \/ LET outer == stack[Len(stack)] IN
       /\ Len(outer) < Len(top)
       /\ top[Len(outer) + 1] = BS
       /\ outer = SubSeq(top, 1, Len(outer))
       /\ NumSep(outer) = NumSep(top) - 1
       /\ CutsInStep(SubSeq(stack, 1, Len(stack) - 1), outer)

\* the recursion of caller c is as deep as the backslashes it has cut, and no
\* deeper than the backslashes of the merged path
DepthBounded(c) ==
    InParentChain(c) =>
        /\ CutsInStep(mk[c].stack, mk[c].dir)
        /\ Len(mk[c].stack) <= NumSep(mk[c].dir)
        /\ mk[c].pc = "parent" =>
               /\ mk[c].cur = (IF mk[c].stack = <<>> THEN mk[c].dir ELSE Head(mk[c].stack))
               /\ NumSep(mk[c].cur) + Len(mk[c].stack) = NumSep(mk[c].dir)

\* C34: make_recursive terminates: each level of dir_make_parent cuts the path
\* at its last backslash, so the recursion is never deeper than the number of
\* backslashes of the path, and a call that has entered the parent chain
\* always comes to its return, whatever the other caller does to the tree
C34_MakeRecursiveTerminates ==
    /\ [](\A c \in MkCallers : DepthBounded(c))
    /\ \A c \in MkCallers : (InParentChain(c) ~> mk[c].pc = "done")

\* a call on a path with two backslashes went down the parent chain, through a
\* recursive call of dir_make_parent, and is on its way back
C34_Witness ==
    \E c \in MkCallers :
        /\ mk[c].pc = "back"
        /\ Len(mk[c].stack) = 1
        /\ NumSep(mk[c].dir) = 2

\* a call came to the end of the chain with no backslash left and answers
\* not-found
C34_WitnessNoSeparator ==
    \E c \in MkCallers :
        /\ mk[c].pc = "done"
        /\ mk[c].path = <<>>
        /\ mk[c].rv = "ENOENT"

----------------------------------------------------------------------------
(* Claims about what a Success of apr_dir_make_recursive stands for *)

\* the prefixes of a sequence of components, the whole included
Prefixes(comps) == {SubSeq(comps, 1, n) : n \in 1..Len(comps)}

\* caller c has Success for its path
AnsweredSuccess(c) == mk[c].pc = "done" /\ mk[c].rv = "SUCCESS"

\* the path of caller c and every prefix of it is a directory of the tree
PathIsDirectory(c) == Prefixes(Components(mk[c].path)) \subseteq fs

\* C37: whenever make_recursive(path) returns Success, path and every prefix
\* of it exist as directories; no Success when a regular file occupies path
C37_SuccessMeansDirectory ==
    \A c \in MkCallers : AnsweredSuccess(c) => PathIsDirectory(c)

\* the same for the paths that no regular file occupies
SuccessMeansDirectoryOffFiles ==
    \A c \in MkCallers :
        (AnsweredSuccess(c) /\ Components(mk[c].path) \notin Files) => PathIsDirectory(c)

\* Success for a path of three components, all of them directories
SuccessOnDeepPathWitness ==
    \E c \in MkCallers :
        /\ AnsweredSuccess(c)
        /\ Len(Components(mk[c].path)) = 3
        /\ PathIsDirectory(c)

\* Success for a path that is a regular file
SuccessOnFileWitness ==
    \E c \in MkCallers : AnsweredSuccess(c) /\ Components(mk[c].path) \in Files

----------------------------------------------------------------------------
(* Claims about the staging buffer of send_file *)

\* the last call was a send_file that had trailers to stage
StagedTrailers ==
    /\ nlast.op = "sendfile"
    /\ ~nlast.hdtr.null
    /\ Len(nlast.hdtr.trailers) > 1

\* the headers of the last call were one vector, which is sent from where it
\* is, longer than hdtrbuf
LongSingleHeader ==
    /\ ~nlast.hdtr.null
    /\ Len(nlast.hdtr.headers) = 1
    /\ ToDword(nlast.hdtr.headers[1]) > HdtrBufLen

\* C35: every copy that send_file makes into hdtrbuf stays inside it, for
\* every combination of header and trailer vectors
C35_StagingInBounds == nlast.op = "sendfile" => ~nlast.overrun

\* the same for the calls whose headers are not one vector longer than hdtrbuf
StagingInBoundsShortHeader ==
    (nlast.op = "sendfile" /\ ~LongSingleHeader) => ~nlast.overrun

\* trailers of several vectors, with no headers, were copied into hdtrbuf and
\* went out with the last TransmitFile call
StagedInsideWitness ==
    /\ StagedTrailers
    /\ Len(nlast.hdtr.headers) = 0
    /\ ~nlast.overrun
    /\ \E i \in 1..Len(nlast.calls) :
           nlast.calls[i].api = "TransmitFile" /\ nlast.calls[i].tail = 2

\* trailers of several vectors were copied past the end of hdtrbuf
StagedPastEndWitness == StagedTrailers /\ LongSingleHeader /\ nlast.overrun

----------------------------------------------------------------------------
(* Claims about the completion a send_file call waits for *)

\* the TransmitFile calls of the last call whose wait was satisfied by the
\* completion of a transfer that an earlier call had left pending
TookLateCompletion ==
    {i \in 1..Len(nlast.calls) :
        nlast.calls[i].api = "TransmitFile" /\ nlast.calls[i].how = "stale"}

\* an earlier call on the socket left its transfer pending
EarlierPending == nlast.before.inflight > 0

\* C36: with the send_file calls on a socket serialized, a call that follows
\* one that returned timed-out never takes the late completion of the pending
\* transfer, and its byte count, for the completion of its own segment
C36_OwnCompletionOnly == nlast.op = "sendfile" => TookLateCompletion = {}

\* the same for the calls that begin with no transfer pending on the socket
OwnCompletionWhenNonePending ==
    (nlast.op = "sendfile" /\ ~EarlierPending) => TookLateCompletion = {}

\* a call that began with a transfer pending waited for its own segment only
OwnCompletionWitness ==
    /\ nlast.op = "sendfile" /\ EarlierPending /\ nlast.rv = "SUCCESS"
    /\ nlast.calls # <<>> /\ TookLateCompletion = {}

\* a call took the byte count of the pending transfer for that of its segment,
\* and it is not the count of the segment
LateCompletionWitness ==
    /\ nlast.op = "sendfile" /\ EarlierPending /\ nlast.rv = "SUCCESS"
    /\ \E i \in TookLateCompletion :
           nlast.calls[i].sent # nlast.calls[i].xmit + nlast.calls[i].head + nlast.calls[i].tail

----------------------------------------------------------------------------
(* Claims about the counters of send_file *)

\* every completion of the last call is that of its own segment, and the call
\* stayed inside hdtrbuf and inside the DWORD lengths of tfb
OwnCompletionsInRange ==
    /\ nlast.op = "sendfile" /\ nlast.rv # "CRASH"
    /\ InRange
    /\ TookLateCompletion = {}

\* the file bytes credited by loop iteration n are no more than the
\* TransmitFile call of that iteration asked for
CreditWithinRequest ==
    \A n \in 1..Len(nlast.credits) :
        n <= Len(SegSeq) /\ nlast.credits[n] <= nlast.calls[SegSeq[n]].xmit

\* bytes_to_send only goes down, from the length asked for
LeftNeverBelowZero ==
    \A n \in 1..Len(nlast.lefts) :
        nlast.lefts[n] <= (IF n = 1 THEN nlast.req ELSE nlast.lefts[n - 1])

\* *len at the return is at most H + requested length + T
TotalWithinBound ==
    nlast.len <= VecSum(nlast.hdtr.headers) + nlast.req + VecSum(nlast.hdtr.trailers)

\* the raw count of every completion covers the header and trailer bytes that
\* went with the segment
RawCoversHdTl ==
    \A k \in 1..Len(nlast.calls) :
        nlast.calls[k].api = "TransmitFile" =>
            nlast.calls[k].sent >= nlast.calls[k].head + nlast.calls[k].tail

\* C39: the counters of send_file never wrap: whatever raw size between 0 and
\* file bytes + headers + trailers a completion reports for its segment, the
\* file bytes credited are no more than the segment asked for, bytes_to_send
\* never goes below zero and *len never exceeds H + requested length + T
C39_CountersNeverWrap ==
    OwnCompletionsInRange =>
        (CreditWithinRequest /\ LeftNeverBelowZero /\ TotalWithinBound)

\* every completion of the last call reported all the bytes of its segment
EveryCompletionFull ==
    \A k \in 1..Len(nlast.calls) :
        nlast.calls[k].api = "TransmitFile" =>
            nlast.calls[k].sent = nlast.calls[k].xmit + nlast.calls[k].head + nlast.calls[k].tail

\* the same for the calls whose completions all report the whole segment
CountersOfFullCompletions ==
    (OwnCompletionsInRange /\ EveryCompletionFull) =>
        (CreditWithinRequest /\ LeftNeverBelowZero /\ TotalWithinBound)

\* three segments, with headers and trailers, completed in full after a wait
FullCompletionsWitness ==
    /\ OwnCompletionsInRange /\ EveryCompletionFull
    /\ nlast.nat.mode = "pending"
    /\ nlast.hdtr.headers # <<>> /\ nlast.hdtr.trailers # <<>>
    /\ Len(nlast.credits) = 3

\* a completion reported one byte less than its segment, the trailers went
\* out again with the next segment, and *len is above H + requested length + T
TrailersTwiceWitness ==
    /\ OwnCompletionsInRange /\ RawCoversHdTl
    /\ \E k \in 1..Len(nlast.calls) : nlast.calls[k].how = "short"
    /\ LeftNeverBelowZero
    /\ ~TotalWithinBound

\* a completion reported fewer bytes than the headers and trailers of its
\* segment, and bytes_to_send went up
WrappedCounterWitness ==
    /\ OwnCompletionsInRange /\ ~RawCoversHdTl
    /\ ~LeftNeverBelowZero
====
